---- MODULE Spec2Model ----
(***************************************************************************)
(* The identifier resolution and deduplication engine of The-MoleCave:     *)
(* get_compound_data (gui_app/normalize_compound.py) and the upload route  *)
(* (gui_app/app.py), as a state machine.                                   *)
(*                                                                         *)
(* Text is a tuple of one-character strings, so that the classifiers and   *)
(* the structure parser work on the characters as the code does.  Python's *)
(* None is the one-element tuple None; the empty string is <<>>.           *)
(***************************************************************************)
EXTENDS Integers, Sequences, FiniteSets, TLC

VARIABLES
    loc,        \* loc[p]: the locals of request p (upload and get_compound_data)
    catalog,    \* the rows of table compounds, in insertion order
    cache       \* _unichem_drugbank_src_id_cache

vars == <<loc, catalog, cache>>

(***************************************************************************)
(* Python values.                                                          *)
(***************************************************************************)
None == <<"None">>

\* Python truthiness of an Optional[str]: None and "" are falsy.
Truthy(x) == x # None /\ x # <<>>

Rep(c, n) == [i \in 1..n |-> c]

Upper == {"A","B","C","D","E","F","G","H","I","J","K","L","M",
          "N","O","P","Q","R","S","T","U","V","W","X","Y","Z"}
Lower == {"a","b","c","d","e","f","g","h","i","j","k","l","m",
          "n","o","p","q","r","s","t","u","v","w","x","y","z"}
Digit == {"0","1","2","3","4","5","6","7","8","9"}

UpperSeq == <<"A","B","C","D","E","F","G","H","I","J","K","L","M",
              "N","O","P","Q","R","S","T","U","V","W","X","Y","Z">>
LowerSeq == <<"a","b","c","d","e","f","g","h","i","j","k","l","m",
              "n","o","p","q","r","s","t","u","v","w","x","y","z">>

\* ASCII case folding of one character, as COLLATE NOCASE does.
FoldChar(c) ==
    IF c \in Upper
    THEN LowerSeq[CHOOSE i \in 1..26 : UpperSeq[i] = c]
    ELSE c

NoCase(t) == IF t = None THEN None ELSE [i \in 1..Len(t) |-> FoldChar(t[i])]

\* str.strip(): leading and trailing blanks removed.
RECURSIVE LStrip(_)
LStrip(t) == IF t # <<>> /\ Head(t) = " " THEN LStrip(Tail(t)) ELSE t

RECURSIVE RStrip(_)
RStrip(t) ==
    IF t # <<>> /\ t[Len(t)] = " " THEN RStrip(SubSeq(t, 1, Len(t) - 1)) ELSE t

Strip(t) == RStrip(LStrip(t))

(***************************************************************************)
(* The input detectors.                                                    *)
(***************************************************************************)
\* INCHIKEY_REGEX = ^[A-Z]{14}-[A-Z]{10}-[A-Z]$ on the stripped text.
looks_like_inchikey(text) ==
    LET t == Strip(text)
    IN  /\ Len(t) = 27
        /\ \A i \in 1..14 : t[i] \in Upper
        /\ t[15] = "-"
        /\ \A i \in 16..25 : t[i] \in Upper
        /\ t[26] = "-"
        /\ t[27] \in Upper

\* Variant: a text with a digit somewhere is taken as digits.
looks_like_pubchem_cid_AnyDigit(text) ==
    \E i \in 1..Len(text) : text[i] \in Digit

\* str.isdigit(): non-empty and every character a digit.
looks_like_pubchem_cid(text) ==
    /\ Len(text) > 0
    /\ \A i \in 1..Len(text) : text[i] \in Digit

(***************************************************************************)
(* The cheminformatics capability (RDKit, molvs), on the fragment of the   *)
(* structure notation this model reads: unbranched chains of the atoms C,  *)
(* N, O and the dummy atom *, with optional single-bond signs between      *)
(* atoms.  Every other text is rejected by the parser.  A molecule is its  *)
(* tuple of atoms.                                                         *)
(***************************************************************************)
Atoms == {"C", "N", "O", "*"}

NoMol == <<"NoMol">>

\* Chem.MolFromSmiles: the molecule, or NoMol (Python None) when the text
\* does not parse.
MolFromSmiles(text) ==
    IF /\ text # None
       /\ Len(text) > 0
       /\ \A i \in 1..Len(text) : text[i] \in Atoms \cup {"-"}
       /\ text[1] \in Atoms
       /\ text[Len(text)] \in Atoms
       /\ \A i \in 1..(Len(text) - 1) : ~(text[i] = "-" /\ text[i + 1] = "-")
    THEN SelectSeq(text, LAMBDA c : c \in Atoms)
    ELSE NoMol

Reverse(s) == [i \in 1..Len(s) |-> s[Len(s) + 1 - i]]

AtomRank(c) == CASE c = "C" -> 1 [] c = "N" -> 2 [] c = "O" -> 3 [] OTHER -> 4

RECURSIVE LexLeq(_, _)
LexLeq(a, b) ==
    IF a = <<>> THEN TRUE
    ELSE IF b = <<>> THEN FALSE
    ELSE IF AtomRank(Head(a)) # AtomRank(Head(b))
         THEN AtomRank(Head(a)) < AtomRank(Head(b))
         ELSE LexLeq(Tail(a), Tail(b))

\* The canonical atom order of a chain: the same for both reading directions.
Canon(mol) == IF LexLeq(mol, Reverse(mol)) THEN mol ELSE Reverse(mol)

\* Chem.MolToInchi: the long identifier of the molecule; the empty string for
\* a molecule InChI cannot describe (a dummy atom).
MolToInchi(mol) ==
    IF "*" \in {mol[i] : i \in 1..Len(mol)}
    THEN <<>>
    ELSE <<"InChI=1S/">> \o Canon(mol)

KeyTail == <<"-","U","H","F","F","F","A","O","Y","S","A","-","N">>

\* Chem.InchiToInchiKey: the 27-character hash of the long identifier; None
\* for the empty identifier.
InchiToInchiKey(inchi) ==
    IF inchi = <<>> THEN None
    ELSE LET body == Tail(inchi)
             n    == IF Len(body) < 14 THEN Len(body) ELSE 14
         IN  SubSeq(body, 1, n) \o Rep("A", 14 - n) \o KeyTail

\* rdMolDescriptors.CalcMolFormula: the atoms in Hill order.
RECURSIVE CountOf(_, _)
CountOf(mol, a) ==
    IF mol = <<>> THEN 0
    ELSE (IF Head(mol) = a THEN 1 ELSE 0) + CountOf(Tail(mol), a)

CalcMolFormula(mol) ==
    Rep("C", CountOf(mol, "C")) \o Rep("N", CountOf(mol, "N"))
        \o Rep("O", CountOf(mol, "O")) \o Rep("*", CountOf(mol, "*"))

AtomMass(a) == CASE a = "C" -> 12 [] a = "N" -> 14 [] a = "O" -> 16 [] OTHER -> 0

RECURSIVE MassOf(_)
MassOf(mol) == IF mol = <<>> THEN 0 ELSE AtomMass(Head(mol)) + MassOf(Tail(mol))

\* rdMolDescriptors.CalcExactMolWt (heavy atoms).
CalcExactMolWt(mol) == <<ToString(MassOf(mol))>>

\* molvs.standardize_smiles: the canonical notation; raises on a text that does
\* not parse (Raised).
Raised == <<"Raised">>

standardize_smiles(smiles) ==
    IF MolFromSmiles(smiles) = NoMol THEN Raised ELSE Canon(MolFromSmiles(smiles))

\* AllChem.GetMorganFingerprintAsBitVect(...).ToBitString(): a descriptor of
\* the molecule, the same for both reading directions.
MorganFingerprint(mol) == <<"fp:">> \o Canon(mol)

\* generate_2d_structure_svg: the depiction, drawn in the atom order of the
\* text; None when the text does not parse.
generate_2d_structure_svg(smiles) ==
    IF MolFromSmiles(smiles) = NoMol THEN None
    ELSE <<"<svg>">> \o MolFromSmiles(smiles)

\* urllib.parse.quote: letters, digits and _.-~/ are kept, the rest is
\* percent-encoded.
QuoteChar(c) ==
    IF c \in Upper \cup Lower \cup Digit \cup {"_", ".", "-", "~", "/"} THEN c
    ELSE IF c = "*" THEN "%2A"
    ELSE IF c = " " THEN "%20"
    ELSE "%3F"   \* no other character occurs in the texts of this model

Quote(t) == [i \in 1..Len(t) |-> QuoteChar(t[i])]

(***************************************************************************)
(* One HTTP exchange with an external source, as the adapters see it:      *)
(*   neterr   requests raised a RequestException (transport error, or a    *)
(*            body that is not JSON);                                      *)
(*   status   a status code other than 200;                                *)
(*   nokey    200, and a JSON object without the key the adapter reads;    *)
(*   empty    200, the keys are there and the list they lead to is empty;  *)
(*   badtype  200, and a JSON value of another type than the adapter       *)
(*            indexes (a list for an object, null for an entry);           *)
(*   ok       200 with the payload val.                                    *)
(***************************************************************************)
Fail(k) == [kind |-> k, val |-> <<>>]
Ok(v) == [kind |-> "ok", val |-> v]

FailKinds == {"neterr", "status", "nokey", "empty", "badtype"}
Failures == {Fail(k) : k \in FailKinds}

\* get_cid_from_pubchem: data['IdentifierList']['CID'][0]; RequestException and
\* KeyError are caught, IndexError and TypeError are not.
get_cid_from_pubchem(r) ==
    CASE r.kind = "ok" -> r.val
      [] r.kind \in {"neterr", "status", "nokey"} -> None
      [] OTHER -> Raised

\* get_cid_from_inchikey: the same body on the inchikey endpoint.
get_cid_from_inchikey(r) ==
    CASE r.kind = "ok" -> r.val
      [] r.kind \in {"neterr", "status", "nokey"} -> None
      [] OTHER -> Raised

\* get_smiles_from_pubchem: data['PropertyTable']['Properties'][0], then the
\* CanonicalSMILES or ConnectivitySMILES property.
get_smiles_from_pubchem(r) ==
    CASE r.kind = "ok" -> r.val
      [] r.kind \in {"neterr", "status", "nokey"} -> None
      [] OTHER -> Raised

\* get_inchikey_from_pubchem: properties.get('InChIKey').
get_inchikey_from_pubchem(r) ==
    CASE r.kind = "ok" -> r.val
      [] r.kind \in {"neterr", "status", "nokey"} -> None
      [] OTHER -> Raised

\* get_names_from_pubchem: the synonyms exchange rs, then the IUPAC exchange
\* ri.  One try block spans both: an exception caught in the first skips the
\* second, and the names set so far are returned; raised says that an
\* IndexError or TypeError left the adapter.
get_names_from_pubchem(rs, ri) ==
    LET common == IF rs.kind = "ok" THEN rs.val ELSE None
        Names(raised, iupac, com) ==
            [raised |-> raised, iupac_name |-> iupac, common_name |-> com]
    IN  CASE rs.kind \in {"empty", "badtype"} -> Names(TRUE, None, None)
          [] rs.kind \in {"neterr", "nokey"} -> Names(FALSE, None, None)
          [] ri.kind \in {"empty", "badtype"} -> Names(TRUE, None, None)
          [] ri.kind = "ok" -> Names(FALSE, ri.val, common)
          [] OTHER -> Names(FALSE, None, common)

\* get_smiles_from_chembl: the first molecule's canonical_smiles; an empty
\* molecules list and a molecule without structures are handled, a null
\* molecule is a TypeError.
get_smiles_from_chembl(r) ==
    CASE r.kind = "ok" -> r.val
      [] r.kind \in {"neterr", "status", "nokey", "empty"} -> None
      [] OTHER -> Raised

\* 'drugbank' in name: substring containment.
Contains(t, sub) ==
    \E i \in 0..(Len(t) - Len(sub)) : SubSeq(t, i + 1, i + Len(sub)) = sub

DrugBankName == <<"d","r","u","g","b","a","n","k">>

\* The loop of _get_unichem_drugbank_src_id over the source list: the src_id
\* of the first source whose lowercased name contains 'drugbank', else None.
RECURSIVE FindDrugBankSource(_)
FindDrugBankSource(sources) ==
    IF sources = <<>> THEN None
    ELSE IF Contains(NoCase(Head(sources).name), DrugBankName)
         THEN Head(sources).src_id
         ELSE FindDrugBankSource(Tail(sources))

\* Variant: a list without a matching source is remembered as an empty id.
CacheAfterFetch_CachesMiss(c, r) ==
    IF r.kind = "ok"
    THEN IF FindDrugBankSource(r.val) # None THEN FindDrugBankSource(r.val) ELSE <<>>
    ELSE c

\* Variant: the id found is added to what the global holds.
CacheAfterFetch_Appends(c, r) ==
    IF r.kind = "ok" /\ FindDrugBankSource(r.val) # None
    THEN IF c = None THEN FindDrugBankSource(r.val) ELSE c \o FindDrugBankSource(r.val)
    ELSE c

\* The cache after the fetch of _get_unichem_drugbank_src_id, c being the
\* cache before: written only when a source of the list matched.
CacheAfterFetch(c, r) ==
    IF r.kind = "ok" /\ FindDrugBankSource(r.val) # None
    THEN FindDrugBankSource(r.val)
    ELSE c

\* The value that fetch returns: None on a transport error or a status other
\* than 200, else the global as it is after the loop.  Only RequestException
\* is caught; iterating a payload that is no list of objects is an
\* AttributeError.
FetchDrugBankSrcId(c, r) ==
    CASE r.kind \in {"ok", "empty", "nokey"} -> CacheAfterFetch(c, r)
      [] r.kind = "badtype" -> Raised
      [] OTHER -> None

\* The loop of get_drugbank_url_from_inchikey over the mappings: the first
\* non-empty src_compound_id of a mapping with the wanted src_id.
RECURSIVE FindMapping(_, _)
FindMapping(mappings, src_id) ==
    IF mappings = <<>> THEN None
    ELSE IF Head(mappings).src_id = src_id /\ Truthy(Head(mappings).src_compound_id)
         THEN Head(mappings).src_compound_id
         ELSE FindMapping(Tail(mappings), src_id)

DrugBankUrl(db_id) == <<"https://go.drugbank.com/drugs/">> \o db_id

\* get_drugbank_url_from_inchikey after the source id is known: the mapping
\* exchange r.  RequestException and ValueError are caught.
get_drugbank_url_from_inchikey(src_id, r) ==
    CASE r.kind = "ok" ->
            IF Truthy(FindMapping(r.val, src_id))
            THEN DrugBankUrl(FindMapping(r.val, src_id))
            ELSE None
      [] r.kind = "badtype" -> Raised
      [] OTHER -> None

\* The scan of the RegistryID list for an accession: the first entry that
\* starts with DB, ignoring case.
RECURSIVE FindAccession(_)
FindAccession(ids) ==
    IF ids = <<>> THEN None
    ELSE IF Len(Head(ids)) >= 2 /\ NoCase(SubSeq(Head(ids), 1, 2)) = <<"d", "b">>
         THEN Head(ids)
         ELSE FindAccession(Tail(ids))

\* get_drugbank_url_from_pubchem_cid: the dedicated xrefs exchange rd, then
\* the RegistryID exchange rr.  data.get on a payload that is no object is an
\* AttributeError, which neither except clause catches.
get_drugbank_url_from_pubchem_cid(rd, rr) ==
    CASE rd.kind = "badtype" -> Raised
      [] rd.kind = "ok" /\ rd.val # <<>> -> DrugBankUrl(rd.val[1])
      [] rr.kind = "badtype" -> Raised
      [] rr.kind = "ok" /\ FindAccession(rr.val) # None ->
            DrugBankUrl(FindAccession(rr.val))
      [] OTHER -> None

(***************************************************************************)
(* get_compound_data, block by block.  Each operator takes the locals l of *)
(* the request (and the exchanges of the calls the block makes) and gives  *)
(* the locals after the block.  pc is the block to run next; "raised" says *)
(* that an exception left get_compound_data.                               *)
(*                                                                         *)
(* Five fields record the history of the calls and belong to no Python     *)
(* variable: unavailable (every adapter call so far returned None),        *)
(* unreachable (every exchange so far was a transport error),              *)
(* asked_name (get_cid_from_pubchem was called with the identifier),       *)
(* asked_names (get_names_from_pubchem was called) and asked_chembl        *)
(* (get_smiles_from_chembl was called).                                    *)
(***************************************************************************)
\* Variant: the link is appended whatever the list holds.
add_source_Always(sources, db_name, url) ==
    Append(sources, [db_name |-> db_name, url |-> url])

\* add_source: append unless a link of that name is there.
add_source(sources, db_name, url) ==
    IF \E i \in 1..Len(sources) : sources[i].db_name = db_name
    THEN sources
    ELSE Append(sources, [db_name |-> db_name, url |-> url])

HasSource(sources, db_name) ==
    \E i \in 1..Len(sources) : sources[i].db_name = db_name

\* The locals at entry (and the fields upload keeps beside them).
Locals(identifier) ==
    [pc |-> "parse",
     identifier |-> identifier,
     smiles |-> None,
     iupac_name |-> None,
     common_name |-> None,
     sources |-> <<>>,
     pubchem_cid |-> None,
     inchi |-> None,
     inchi_key |-> None,
     structure_2d_svg |-> None,
     molecular_formula |-> None,
     molecular_weight |-> None,
     smiles_normalized |-> None,
     fingerprint |-> None,
     current_pubchem_cid |-> None,
     fetched_inchi_key |-> None,
     pubchem_smiles |-> None,
     chembl_smiles |-> None,
     src_id |-> None,
     resp |-> None,
     step |-> 1,
     existing |-> 0,
     outcome |-> "pending",
     asked_name |-> FALSE,
     asked_names |-> FALSE,
     asked_chembl |-> FALSE,
     unavailable |-> TRUE,
     unreachable |-> TRUE]

\* The history fields after an adapter call over the exchanges rs; none says
\* that the adapter returned None (for the names: no name).
Called(l, rs, none) ==
    [l EXCEPT !.unavailable = @ /\ none,
              !.unreachable = @ /\ \A r \in rs : r.kind = "neterr"]

Raise(l) == [l EXCEPT !.pc = "raised", !.unavailable = FALSE]

\* Variant: the structure is accepted and its link is not recorded.
ParseIdentifier_NoLink(l) ==
    IF MolFromSmiles(l.identifier) # NoMol
    THEN [l EXCEPT !.smiles = l.identifier, !.pc = "classify"]
    ELSE [l EXCEPT !.pc = "classify"]

\* 1. Try to parse identifier as SMILES.
ParseIdentifier(l) ==
    IF MolFromSmiles(l.identifier) # NoMol
    THEN [l EXCEPT !.smiles = l.identifier,
                   !.sources = add_source(@, <<"User-provided">>, <<"#">>),
                   !.pc = "classify"]
    ELSE [l EXCEPT !.pc = "classify"]

\* Variant: a digit identifier is not taken as the CID.
DirectCid_Never(l) == None

\* 2. A digit identifier is the CID; else a key-shaped identifier is the key
\* and its CID is looked up (the call is inside try/except Exception).
DirectCid(l) ==
    IF looks_like_pubchem_cid(l.identifier) THEN l.identifier ELSE None

LooksUpGivenKey(l) == ~Truthy(DirectCid(l)) /\ looks_like_inchikey(l.identifier)

ClassifyDigits(l) == [l EXCEPT !.current_pubchem_cid = DirectCid(l), !.pc = "smiles_key"]

ClassifyKey(l, r) ==
    LET res == get_cid_from_inchikey(r)
    IN  [Called(l, {r}, res = None)
            EXCEPT !.inchi_key = l.identifier,
                   !.current_pubchem_cid = IF res = Raised THEN DirectCid(l) ELSE res,
                   !.pc = "smiles_key"]

\* If SMILES was provided, derive its key and look the CID up by it (inside
\* try/except Exception: an exception of the call leaves the CID as it was).
DerivesKeyFromInput(l) == Truthy(l.smiles) /\ MolFromSmiles(l.smiles) # NoMol

\* Variant: without a structure the working CID is reset before the name
\* lookup.
SmilesKeySkip_ResetsCid(l) ==
    [l EXCEPT !.current_pubchem_cid = None, !.pc = "by_name"]

SmilesKeySkip(l) == [l EXCEPT !.pc = "by_name"]

SmilesKey(l, r) ==
    LET inchi == MolToInchi(MolFromSmiles(l.smiles))
        res   == get_cid_from_inchikey(r)
    IN  [Called(l, {r}, res = None)
            EXCEPT !.inchi = inchi,
                   !.inchi_key = InchiToInchiKey(inchi),
                   !.current_pubchem_cid = IF res = Raised THEN @ ELSE res,
                   !.pc = "by_name"]

\* Variant: the name lookup is made whatever the earlier blocks found.
NeedsNameLookup_Always(l) == TRUE

\* If no CID yet, try by identifier name (not inside a try).
NeedsNameLookup(l) == ~Truthy(l.current_pubchem_cid)

ByNameSkip(l) == [l EXCEPT !.pc = "pubchem"]

ByName(l, r) ==
    LET res == get_cid_from_pubchem(r)
    IN  IF res = Raised THEN Raise([l EXCEPT !.asked_name = TRUE])
        ELSE [Called(l, {r}, res = None)
                 EXCEPT !.current_pubchem_cid = res,
                        !.asked_name = TRUE,
                        !.pc = "pubchem"]

PubChemUrl(cid) == <<"https://pubchem.ncbi.nlm.nih.gov/compound/">> \o cid

\* if current_pubchem_cid: set pubchem_cid and add the PubChem link; the key
\* is fetched when none is known.
PubChemSkip(l) == [l EXCEPT !.pc = "chembl"]

\* Variant: the CID is kept and the PubChem link is not recorded.
PubChemLink_NoSource(l) ==
    [l EXCEPT !.pubchem_cid = l.current_pubchem_cid, !.pc = "pubchem_data"]

PubChemLink(l) ==
    [l EXCEPT !.pubchem_cid = l.current_pubchem_cid,
              !.sources = add_source(@, <<"PubChem">>, PubChemUrl(l.current_pubchem_cid)),
              !.pc = "pubchem_data"]

PubChemLinkAndKey(l, r) ==
    LET res == get_inchikey_from_pubchem(r)
    IN  IF res = Raised THEN Raise(l)
        ELSE [Called(PubChemLink(l), {r}, res = None)
                 EXCEPT !.fetched_inchi_key = res,
                        !.inchi_key = IF Truthy(res) THEN res ELSE @]

\* Structure and names from PubChem; the names are fetched only when the
\* structure fetch returned one.
PubChemNoSmiles(l, r) ==
    LET res == get_smiles_from_pubchem(r)
    IN  IF res = Raised THEN Raise(l)
        ELSE [Called(l, {r}, res = None)
                 EXCEPT !.pubchem_smiles = res, !.pc = "chembl"]

\* Variant: PubChem's structure replaces the one already set.
PubChemData_Overwrites(l, r, rs, ri) ==
    LET res   == get_smiles_from_pubchem(r)
        names == get_names_from_pubchem(rs, ri)
    IN  IF names.raised THEN Raise([l EXCEPT !.asked_names = TRUE])
        ELSE [Called(l, {r, rs, ri}, FALSE)
                 EXCEPT !.pubchem_smiles = res,
                        !.asked_names = TRUE,
                        !.smiles = res,
                        !.iupac_name = IF Truthy(names.iupac_name) THEN names.iupac_name ELSE @,
                        !.common_name = IF Truthy(names.common_name) THEN names.common_name ELSE @,
                        !.pc = "chembl"]

PubChemData(l, r, rs, ri) ==
    LET res   == get_smiles_from_pubchem(r)
        names == get_names_from_pubchem(rs, ri)
    IN  IF names.raised THEN Raise([l EXCEPT !.asked_names = TRUE])
        ELSE [Called(l, {r, rs, ri}, FALSE)
                 EXCEPT !.pubchem_smiles = res,
                        !.asked_names = TRUE,
                        !.smiles = IF ~Truthy(@) THEN res ELSE @,
                        !.iupac_name = IF Truthy(names.iupac_name) THEN names.iupac_name ELSE @,
                        !.common_name = IF Truthy(names.common_name) THEN names.common_name ELSE @,
                        !.pc = "chembl"]

ChemblUrl(identifier) ==
    <<"https://www.ebi.ac.uk/chembl/g/#search_results/all/query=">> \o Quote(identifier)

\* Variant: ChEMBL's structure replaces the one already set.
Chembl_Overwrites(l, r) ==
    LET res == get_smiles_from_chembl(r)
    IN  IF res = Raised THEN Raise([l EXCEPT !.asked_chembl = TRUE])
        ELSE IF Truthy(res)
        THEN [Called(l, {r}, FALSE)
                 EXCEPT !.chembl_smiles = res,
                        !.asked_chembl = TRUE,
                        !.smiles = res,
                        !.sources = add_source(@, <<"ChEMBL">>, ChemblUrl(l.identifier)),
                        !.pc = "derive"]
        ELSE [Called(l, {r}, res = None)
                 EXCEPT !.chembl_smiles = res, !.asked_chembl = TRUE, !.pc = "derive"]

\* 3. Attempt ChEMBL search.
Chembl(l, r) ==
    LET res == get_smiles_from_chembl(r)
    IN  IF res = Raised THEN Raise([l EXCEPT !.asked_chembl = TRUE])
        ELSE IF Truthy(res)
        THEN [Called(l, {r}, FALSE)
                 EXCEPT !.chembl_smiles = res,
                        !.asked_chembl = TRUE,
                        !.smiles = IF ~Truthy(@) THEN res ELSE @,
                        !.sources = add_source(@, <<"ChEMBL">>, ChemblUrl(l.identifier)),
                        !.pc = "derive"]
        ELSE [Called(l, {r}, res = None)
                 EXCEPT !.chembl_smiles = res, !.asked_chembl = TRUE, !.pc = "derive"]

\* Variant: the key is derived only when none is set yet.
Derive_KeepsKey(l) ==
    IF ~Truthy(l.smiles) THEN [l EXCEPT !.pc = "unichem"]
    ELSE IF MolFromSmiles(l.smiles) = NoMol
    THEN [l EXCEPT !.structure_2d_svg = generate_2d_structure_svg(l.smiles),
                   !.pc = "unichem"]
    ELSE [l EXCEPT !.structure_2d_svg = generate_2d_structure_svg(l.smiles),
                   !.inchi = MolToInchi(MolFromSmiles(l.smiles)),
                   !.inchi_key =
                       IF Truthy(@) THEN @
                       ELSE InchiToInchiKey(MolToInchi(MolFromSmiles(l.smiles))),
                   !.pc = "unichem"]

\* Variant: the key of a compound PubChem knows is left as it is.
Derive_KeepsPubChemKey(l) ==
    IF ~Truthy(l.smiles) THEN [l EXCEPT !.pc = "unichem"]
    ELSE IF MolFromSmiles(l.smiles) = NoMol
    THEN [l EXCEPT !.structure_2d_svg = generate_2d_structure_svg(l.smiles),
                   !.pc = "unichem"]
    ELSE [l EXCEPT !.structure_2d_svg = generate_2d_structure_svg(l.smiles),
                   !.inchi = MolToInchi(MolFromSmiles(l.smiles)),
                   !.inchi_key =
                       IF Truthy(l.current_pubchem_cid) /\ Truthy(@) THEN @
                       ELSE InchiToInchiKey(MolToInchi(MolFromSmiles(l.smiles))),
                   !.pc = "unichem"]

\* 4. If SMILES is available, generate the SVG and derive InChI/InChIKey.
Derive(l) ==
    IF ~Truthy(l.smiles) THEN [l EXCEPT !.pc = "unichem"]
    ELSE IF MolFromSmiles(l.smiles) = NoMol
    THEN [l EXCEPT !.structure_2d_svg = generate_2d_structure_svg(l.smiles),
                   !.pc = "unichem"]
    ELSE [l EXCEPT !.structure_2d_svg = generate_2d_structure_svg(l.smiles),
                   !.inchi = MolToInchi(MolFromSmiles(l.smiles)),
                   !.inchi_key = InchiToInchiKey(MolToInchi(MolFromSmiles(l.smiles))),
                   !.pc = "unichem"]

\* Variant: the source list is fetched whatever the cache holds.
Unichem_AlwaysFetches(l, c) ==
    IF ~Truthy(l.inchi_key) THEN [l EXCEPT !.pc = "xrefs"]
    ELSE [l EXCEPT !.pc = "unichem_fetch"]

\* 5. DrugBank via UniChem, when a key is known.  First the cache check of
\* _get_unichem_drugbank_src_id, c being the cache.
Unichem(l, c) ==
    IF ~Truthy(l.inchi_key) THEN [l EXCEPT !.pc = "xrefs"]
    ELSE IF c # None THEN [l EXCEPT !.src_id = c, !.pc = "unichem_map"]
    ELSE [l EXCEPT !.pc = "unichem_fetch"]

\* The source list fetch, and `if not src_id: return None`.
UnichemFetch(l, c, r) ==
    LET res == FetchDrugBankSrcId(c, r)
    IN  IF res = Raised THEN Raise(l)
        ELSE IF Truthy(res)
        THEN [Called(l, {r}, FALSE) EXCEPT !.src_id = res, !.pc = "unichem_map"]
        ELSE [Called(l, {r}, TRUE) EXCEPT !.pc = "xrefs"]

\* The same fetch statement by statement, as threads interleave in it.
\* requests.get and the status check: a transport error or a status other
\* than 200 returns None, else the response is held in resp.
UnichemRequest(l, r) ==
    IF r.kind \in {"neterr", "status"}
    THEN [Called(l, {r}, TRUE) EXCEPT !.pc = "xrefs"]
    ELSE [l EXCEPT !.resp = r, !.pc = "unichem_loop"]

\* The loop over the sources, which writes the global (see CacheAfterFetch).
UnichemLoop(l) ==
    IF l.resp.kind = "badtype" THEN Raise([l EXCEPT !.resp = None])
    ELSE [l EXCEPT !.pc = "unichem_return"]

\* `return _unichem_drugbank_src_id_cache` reads the global c, and
\* `if not src_id: return None` in the caller.
UnichemReturn(l, c) ==
    IF Truthy(c)
    THEN [Called(l, {l.resp}, FALSE)
             EXCEPT !.src_id = c, !.resp = None, !.pc = "unichem_map"]
    ELSE [Called(l, {l.resp}, TRUE) EXCEPT !.resp = None, !.pc = "xrefs"]

\* The mapping query, and add_source('DrugBank', ...) when it gave a URL.
UnichemMap(l, r) ==
    LET res == get_drugbank_url_from_inchikey(l.src_id, r)
    IN  IF res = Raised THEN Raise(l)
        ELSE IF Truthy(res)
        THEN [Called(l, {r}, FALSE)
                 EXCEPT !.sources = add_source(@, <<"DrugBank">>, res), !.pc = "xrefs"]
        ELSE [Called(l, {r}, TRUE) EXCEPT !.pc = "xrefs"]

\* 5b. If UniChem did not yield DrugBank, try the PubChem xrefs fallback.
TriesXrefs(l) == ~HasSource(l.sources, <<"DrugBank">>) /\ Truthy(l.pubchem_cid)

XrefsSkip(l) == [l EXCEPT !.pc = "finish"]

Xrefs(l, rd, rr) ==
    LET res == get_drugbank_url_from_pubchem_cid(rd, rr)
    IN  IF res = Raised THEN Raise(l)
        ELSE IF Truthy(res)
        THEN [Called(l, {rd, rr}, FALSE)
                 EXCEPT !.sources = add_source(@, <<"DrugBank">>, res), !.pc = "finish"]
        ELSE [Called(l, {rd, rr}, TRUE) EXCEPT !.pc = "finish"]

\* Molecular formula and weight, when the structure parses.
Descriptors(l) ==
    IF Truthy(l.smiles) /\ MolFromSmiles(l.smiles) # NoMol
    THEN [l EXCEPT !.molecular_formula = CalcMolFormula(MolFromSmiles(l.smiles)),
                   !.molecular_weight = CalcExactMolWt(MolFromSmiles(l.smiles))]
    ELSE l

\* Variant: the fingerprint is taken from the raw notation as it is written.
Normalize_RawFingerprint(l) ==
    IF Truthy(l.smiles)
    THEN [l EXCEPT !.smiles_normalized =
                       IF standardize_smiles(l.smiles) # Raised
                       THEN standardize_smiles(l.smiles) ELSE None,
                   !.fingerprint = <<"fp:">> \o l.smiles]
    ELSE l

\* The normalized form and, from it, the fingerprint; an exception of
\* standardize_smiles leaves both None.
Normalize(l) ==
    IF Truthy(l.smiles) /\ standardize_smiles(l.smiles) # Raised
    THEN [l EXCEPT !.smiles_normalized = standardize_smiles(l.smiles),
                   !.fingerprint =
                       IF MolFromSmiles(standardize_smiles(l.smiles)) # NoMol
                       THEN MorganFingerprint(MolFromSmiles(standardize_smiles(l.smiles)))
                       ELSE None]
    ELSE l

\* The last blocks and the return of the dictionary.
Finish(l) == [Normalize(Descriptors(l)) EXCEPT !.pc = "returned"]

(***************************************************************************)
(* The upload route.                                                       *)
(***************************************************************************)
\* Variant: smiles_raw is filled from the PubChem answer.
Data_WrongRaw(l) ==
    [smiles_raw |-> l.pubchem_smiles,
     smiles_normalized |-> l.smiles_normalized,
     iupac_name |-> l.iupac_name,
     common_name |-> l.common_name,
     sources |-> l.sources,
     pubchem_cid |-> l.pubchem_cid,
     structure_2d_svg |-> l.structure_2d_svg,
     inchi |-> l.inchi,
     inchi_key |-> l.inchi_key,
     molecular_formula |-> l.molecular_formula,
     molecular_weight |-> l.molecular_weight,
     fingerprint |-> l.fingerprint]

\* The dictionary get_compound_data returns.
Data(l) ==
    [smiles_raw |-> l.smiles,
     smiles_normalized |-> l.smiles_normalized,
     iupac_name |-> l.iupac_name,
     common_name |-> l.common_name,
     sources |-> l.sources,
     pubchem_cid |-> l.pubchem_cid,
     structure_2d_svg |-> l.structure_2d_svg,
     inchi |-> l.inchi,
     inchi_key |-> l.inchi_key,
     molecular_formula |-> l.molecular_formula,
     molecular_weight |-> l.molecular_weight,
     fingerprint |-> l.fingerprint]

\* The row the INSERT of upload writes, with the id the table assigns.
Row(id, data) ==
    [compound_id |-> id,
     iupac_name |-> data.iupac_name,
     common_name |-> data.common_name,
     smiles_raw |-> data.smiles_raw,
     smiles_normalized |-> data.smiles_normalized,
     inchi |-> data.inchi,
     inchi_key |-> data.inchi_key,
     molecular_formula |-> data.molecular_formula,
     molecular_weight |-> data.molecular_weight,
     fingerprint |-> data.fingerprint,
     structure_2d_svg |-> data.structure_2d_svg,
     metadata |-> data.sources]

RECURSIVE MaxId(_)
MaxId(cat) ==
    IF cat = <<>> THEN 0
    ELSE IF Head(cat).compound_id > MaxId(Tail(cat))
         THEN Head(cat).compound_id
         ELSE MaxId(Tail(cat))

\* Variant: the common name is checked before the raw structure.
CascadeFields_NameFirst ==
    <<"inchi_key", "smiles_normalized", "common_name", "smiles_raw">>

\* The order of the duplicate checks of upload.
CascadeFields == <<"inchi_key", "smiles_normalized", "smiles_raw", "common_name">>

\* SELECT compound_id FROM compounds WHERE <field> = ? (COLLATE NOCASE for the
\* common name): the ids of the matching rows.  A NULL column matches nothing.
Select(cat, field, value) ==
    {cat[i].compound_id : i \in
        {j \in 1..Len(cat) :
            /\ cat[j][field] # None
            /\ IF field = "common_name"
               THEN NoCase(cat[j][field]) = NoCase(value)
               ELSE cat[j][field] = value}}

\* The check of the cascade that runs at l.step: skipped when the record's
\* field is empty.
ChecksField(l) == Truthy(Data(l)[CascadeFields[l.step]])

Hits(l, cat) ==
    IF ChecksField(l)
    THEN Select(cat, CascadeFields[l.step], Data(l)[CascadeFields[l.step]])
    ELSE {}

\* Variant: the match is noted and the request goes on to the INSERT.
Duplicate_GoesOn(l, id) == [l EXCEPT !.existing = id, !.outcome = "duplicate", !.pc = "insert"]

\* fetchone() found row id: flash and redirect to it.
Duplicate(l, id) == [l EXCEPT !.existing = id, !.outcome = "duplicate", !.pc = "done"]

\* No match at this check: the next one, and after the last the INSERT.
NoMatch(l) ==
    IF l.step < Len(CascadeFields)
    THEN [l EXCEPT !.step = @ + 1]
    ELSE [l EXCEPT !.pc = "insert"]

\* Variant: a record without structure is refused whatever its links.
Rejects_NoStructure(data) == ~Truthy(data.smiles_raw)

\* `if not data.get('smiles_raw') and not data.get('sources')`: nothing to
\* store.
Rejects(data) == ~Truthy(data.smiles_raw) /\ data.sources = <<>>

Screen(l) ==
    IF Rejects(Data(l))
    THEN [l EXCEPT !.outcome = "unresolvable", !.pc = "done"]
    ELSE [l EXCEPT !.pc = "connect"]

(***************************************************************************)
(* The texts of this model.                                                *)
(***************************************************************************)
Ethanol == <<"C", "C", "O">>
EthanolReversed == <<"O", "C", "C">>
Dummy == <<"*">>
Unclosed == <<"C", "1">>          \* a ring bond that is never closed: no parse
FreeText == <<"A", "s", "p">>
Digits == <<"2", "2", "4", "4">>
KeyAspirin ==
    <<"B","S","Y","N","R","Y","M","U","T","X","B","X","S","Q",
      "-","U","H","F","F","F","A","O","Y","S","A","-","N">>
KeyEthanol == InchiToInchiKey(MolToInchi(Ethanol))
\* Key-shaped and a structure notation at once: a chain of 25 carbon atoms.
KeyShapedChain == Rep("C", 14) \o <<"-">> \o Rep("C", 10) \o <<"-", "C">>
Blank == <<" ">>

\* The form field of a POST.
Inputs ==
    {Ethanol, EthanolReversed, Dummy, FreeText, Digits, KeyAspirin, KeyEthanol,
     KeyShapedChain, Blank, <<" ">> \o Ethanol}

Cid702 == <<"7", "0", "2">>

CidExchanges == Failures \cup {Ok(Cid702)}
KeyExchanges == Failures \cup {Ok(KeyAspirin), Ok(KeyEthanol)}
SmilesExchanges == Failures \cup {Ok(Ethanol), Ok(Unclosed)}
SynonymExchanges == Failures \cup {Ok(<<"E","t","O","H">>), Ok(<<"E","T","O","H">>)}
IupacExchanges == Failures \cup {Ok(<<"e","t","h","a","n","o","l">>)}
ChemblExchanges == Failures \cup {Ok(EthanolReversed), Ok(Dummy)}
SourceListExchanges ==
    Failures \cup
    {Ok(<<[name |-> <<"c","h","e","m","b","l">>, src_id |-> <<"1">>],
          [name |-> <<"D","r","u","g","B","a","n","k">>, src_id |-> <<"2">>]>>),
     Ok(<<[name |-> <<"c","h","e","m","b","l">>, src_id |-> <<"1">>]>>)}
MappingExchanges ==
    Failures \cup
    {Ok(<<[src_id |-> <<"1">>, src_compound_id |-> <<"CHEMBL545">>],
          [src_id |-> <<"2">>, src_compound_id |-> <<"DB00898">>]>>)}
XrefExchanges == Failures \cup {Ok(<<<<"D","B","1">>>>)}
RegistryExchanges == Failures \cup {Ok(<<<<"6","4">>, <<"d","b","2">>>>)}

(***************************************************************************)
(* The catalog at the start: rows that earlier uploads wrote.  Each seed   *)
(* row is the row of one resolution, composed from the blocks above.       *)
(***************************************************************************)
Down == Fail("neterr")

\* Upload of CCO with no source reachable.
SeedEthanol ==
    Finish(XrefsSkip(UnichemFetch(Unichem(Derive(Chembl(PubChemSkip(ByName(
        SmilesKey(ClassifyDigits(ParseIdentifier(Locals(Ethanol))), Down),
        Down)), Down)), None), None, Down)))

\* Upload of the CID 2244 when PubChem has no key and a structure that does
\* not parse.
SeedUnparsed ==
    Finish(Xrefs(Unichem(Derive(Chembl(PubChemData(PubChemLinkAndKey(
        ByNameSkip(SmilesKeySkip(ClassifyDigits(ParseIdentifier(Locals(Digits))))),
        Fail("nokey")), Ok(Unclosed), Fail("status"), Fail("status")), Down)), None),
        Down, Down))

\* Upload of OCC when PubChem knows the compound and its synonym ETOH.
SeedNamed ==
    Finish(Xrefs(UnichemFetch(Unichem(Derive(Chembl(PubChemData(PubChemLink(
        ByNameSkip(SmilesKey(ClassifyDigits(ParseIdentifier(Locals(EthanolReversed))),
                             Ok(Cid702)))),
        Ok(Ethanol), Ok(<<"E","T","O","H">>), Down), Down)), None), None, Down),
        Down, Down))

\* Upload of the CID 2244 with no source reachable: a link-only row.
SeedLinkOnly ==
    Finish(Xrefs(Unichem(Derive(Chembl(PubChemNoSmiles(PubChemLinkAndKey(
        ByNameSkip(SmilesKeySkip(ClassifyDigits(ParseIdentifier(Locals(Digits))))),
        Down), Down), Down)), None), Down, Down))

\* Upload of a key PubChem knows, with no structure found: a row with a key
\* and no structure.
SeedKeyed ==
    Finish(Xrefs(UnichemFetch(Unichem(Derive(Chembl(PubChemNoSmiles(PubChemLink(
        ByNameSkip(SmilesKeySkip(ClassifyKey(ParseIdentifier(Locals(KeyAspirin)),
                                             Ok(Cid702))))),
        Down), Down)), None), None, Down), Down, Down))

SeedData ==
    <<Data(SeedUnparsed), Data(SeedNamed), Data(SeedEthanol), Data(SeedLinkOnly),
      Data(SeedKeyed)>>

\* The largest catalog at the start.
MaxSeedRows == 2

\* The seed rows taken in their order, ids from 1.
SeedCatalogs ==
    {[i \in 1..Len(pick) |-> Row(i, SeedData[pick[i]])] :
        pick \in {s \in UNION {[1..n -> 1..Len(SeedData)] : n \in 0..MaxSeedRows} :
                     \A i, j \in 1..Len(s) : i < j => s[i] < s[j]}}

(***************************************************************************)
(* The state machine.  Every request is one process: "idle" before its     *)
(* POST arrives, "off" when the behaviour has no such request.             *)
(***************************************************************************)
Procs == {1, 2}

Waiting(pc) == [Locals(<<>>) EXCEPT !.pc = pc]

Init ==
    /\ loc = [p \in Procs |-> IF p = 1 THEN Waiting("idle") ELSE Waiting("off")]
    /\ catalog \in SeedCatalogs
    /\ cache = None

At(p, pc) == loc[p].pc = pc

Local(p, l) == loc' = [loc EXCEPT ![p] = l]

\* upload: the POST arrives; an empty identifier is refused.
Receive(p) ==
    /\ At(p, "idle")
    /\ \E raw \in Inputs :
        IF Strip(raw) = <<>>
        THEN Local(p, [loc[p] EXCEPT !.outcome = "required", !.pc = "done"])
        ELSE Local(p, Locals(Strip(raw)))
    /\ UNCHANGED <<catalog, cache>>

StepParse(p) ==
    /\ At(p, "parse")
    /\ Local(p, ParseIdentifier(loc[p]))
    /\ UNCHANGED <<catalog, cache>>

StepClassify(p) ==
    /\ At(p, "classify")
    /\ IF LooksUpGivenKey(loc[p])
       THEN \E r \in CidExchanges : Local(p, ClassifyKey(loc[p], r))
       ELSE Local(p, ClassifyDigits(loc[p]))
    /\ UNCHANGED <<catalog, cache>>

StepSmilesKey(p) ==
    /\ At(p, "smiles_key")
    /\ IF DerivesKeyFromInput(loc[p])
       THEN \E r \in CidExchanges : Local(p, SmilesKey(loc[p], r))
       ELSE Local(p, SmilesKeySkip(loc[p]))
    /\ UNCHANGED <<catalog, cache>>

StepByName(p) ==
    /\ At(p, "by_name")
    /\ IF NeedsNameLookup(loc[p])
       THEN \E r \in CidExchanges : Local(p, ByName(loc[p], r))
       ELSE Local(p, ByNameSkip(loc[p]))
    /\ UNCHANGED <<catalog, cache>>

StepPubChem(p) ==
    /\ At(p, "pubchem")
    /\ IF ~Truthy(loc[p].current_pubchem_cid) THEN Local(p, PubChemSkip(loc[p]))
       ELSE IF ~Truthy(loc[p].inchi_key)
       THEN \E r \in KeyExchanges : Local(p, PubChemLinkAndKey(loc[p], r))
       ELSE Local(p, PubChemLink(loc[p]))
    /\ UNCHANGED <<catalog, cache>>

StepPubChemData(p) ==
    /\ At(p, "pubchem_data")
    /\ \E r \in SmilesExchanges :
        IF Truthy(get_smiles_from_pubchem(r)) /\ get_smiles_from_pubchem(r) # Raised
        THEN \E rs \in SynonymExchanges, ri \in IupacExchanges :
                Local(p, PubChemData(loc[p], r, rs, ri))
        ELSE Local(p, PubChemNoSmiles(loc[p], r))
    /\ UNCHANGED <<catalog, cache>>

StepChembl(p) ==
    /\ At(p, "chembl")
    /\ \E r \in ChemblExchanges : Local(p, Chembl(loc[p], r))
    /\ UNCHANGED <<catalog, cache>>

StepDerive(p) ==
    /\ At(p, "derive")
    /\ Local(p, Derive(loc[p]))
    /\ UNCHANGED <<catalog, cache>>

StepUnichem(p) ==
    /\ At(p, "unichem")
    /\ Local(p, Unichem(loc[p], cache))
    /\ UNCHANGED <<catalog, cache>>

\* The fetch of the source list: the loop writes the global, and the return
\* statement reads it.
StepUnichemFetch(p) ==
    /\ At(p, "unichem_fetch")
    /\ \E r \in SourceListExchanges :
        /\ Local(p, UnichemFetch(loc[p], cache, r))
        /\ cache' = CacheAfterFetch(cache, r)
    /\ UNCHANGED catalog

StepUnichemMap(p) ==
    /\ At(p, "unichem_map")
    /\ \E r \in MappingExchanges : Local(p, UnichemMap(loc[p], r))
    /\ UNCHANGED <<catalog, cache>>

StepXrefs(p) ==
    /\ At(p, "xrefs")
    /\ IF TriesXrefs(loc[p])
       THEN \E rd \in XrefExchanges, rr \in RegistryExchanges :
                Local(p, Xrefs(loc[p], rd, rr))
       ELSE Local(p, XrefsSkip(loc[p]))
    /\ UNCHANGED <<catalog, cache>>

StepFinish(p) ==
    /\ At(p, "finish")
    /\ Local(p, Finish(loc[p]))
    /\ UNCHANGED <<catalog, cache>>

\* upload: `except Exception` around get_compound_data.
UploadError(p) ==
    /\ At(p, "raised")
    /\ Local(p, [loc[p] EXCEPT !.outcome = "error", !.pc = "done"])
    /\ UNCHANGED <<catalog, cache>>

StepScreen(p) ==
    /\ At(p, "returned")
    /\ Local(p, Screen(loc[p]))
    /\ UNCHANGED <<catalog, cache>>

\* get_db_connection: the connection, or None and the request ends.
Connect(p) ==
    /\ At(p, "connect")
    /\ \/ Local(p, [loc[p] EXCEPT !.pc = "dedup"])
       \/ Local(p, [loc[p] EXCEPT !.outcome = "dbfail", !.pc = "done"])
    /\ UNCHANGED <<catalog, cache>>

\* One check of the cascade; fetchone() gives one of the matching rows.
StepDedup(p) ==
    /\ At(p, "dedup")
    /\ IF Hits(loc[p], catalog) # {}
       THEN \E id \in Hits(loc[p], catalog) : Local(p, Duplicate(loc[p], id))
       ELSE Local(p, NoMatch(loc[p]))
    /\ UNCHANGED <<catalog, cache>>

\* INSERT and commit.
Insert(p) ==
    /\ At(p, "insert")
    /\ catalog' = Append(catalog, Row(MaxId(catalog) + 1, Data(loc[p])))
    /\ Local(p, [loc[p] EXCEPT !.existing = MaxId(catalog) + 1,
                               !.outcome = "inserted", !.pc = "done"])
    /\ UNCHANGED cache

\* `except sqlite3.Error` around the checks and the INSERT: nothing is stored.
DbError(p) ==
    /\ At(p, "dedup") \/ At(p, "insert")
    /\ Local(p, [loc[p] EXCEPT !.outcome = "dberror", !.pc = "done"])
    /\ UNCHANGED <<catalog, cache>>

Next ==
    \E p \in Procs :
        \/ Receive(p)
        \/ StepParse(p)
        \/ StepClassify(p)
        \/ StepSmilesKey(p)
        \/ StepByName(p)
        \/ StepPubChem(p)
        \/ StepPubChemData(p)
        \/ StepChembl(p)
        \/ StepDerive(p)
        \/ StepUnichem(p)
        \/ StepUnichemFetch(p)
        \/ StepUnichemMap(p)
        \/ StepXrefs(p)
        \/ StepFinish(p)
        \/ UploadError(p)
        \/ StepScreen(p)
        \/ Connect(p)
        \/ StepDedup(p)
        \/ Insert(p)
        \/ DbError(p)

Spec == Init /\ [][Next]_vars

(***************************************************************************)
(* Two requests in the database phase of upload.  Flask serves every       *)
(* request on a thread of its own; each request opens its own connection,  *)
(* runs the checks and the INSERT as separate statements and takes no      *)
(* lock.  Both requests start with the record get_compound_data returned.  *)
(***************************************************************************)
Resolved == {SeedEthanol, SeedNamed, SeedUnparsed, SeedLinkOnly, SeedKeyed}

InitStore ==
    /\ loc \in [Procs -> Resolved]
    /\ catalog \in SeedCatalogs
    /\ cache = None

NextStore ==
    \E p \in Procs :
        \/ StepScreen(p)
        \/ Connect(p)
        \/ StepDedup(p)
        \/ Insert(p)
        \/ DbError(p)

SpecStore == InitStore /\ [][NextStore]_vars

(***************************************************************************)
(* Progress.  The PubChem and ChEMBL adapters call requests.get without a  *)
(* timeout argument: the call returns when the source answers or the       *)
(* connection fails, and waits as long as the source keeps the connection  *)
(* open and silent.  The UniChem and xrefs calls carry timeout=15 and      *)
(* timeout=20: a silent source is a RequestException there ("neterr").     *)
(***************************************************************************)
\* The request is about to issue a call that has no timeout.
CallsWithoutTimeout(l) ==
    \/ l.pc = "classify" /\ LooksUpGivenKey(l)
    \/ l.pc = "smiles_key" /\ DerivesKeyFromInput(l)
    \/ l.pc = "by_name" /\ NeedsNameLookup(l)
    \/ l.pc = "pubchem" /\ Truthy(l.current_pubchem_cid) /\ ~Truthy(l.inchi_key)
    \/ l.pc = "pubchem_data"
    \/ l.pc = "chembl"

\* The source accepts the connection and never answers.
Hang(p) ==
    /\ CallsWithoutTimeout(loc[p])
    /\ Local(p, [loc[p] EXCEPT !.pc = "blocked"])
    /\ UNCHANGED <<catalog, cache>>

InitLive ==
    /\ loc = [p \in Procs |-> IF p = 1 THEN Waiting("idle") ELSE Waiting("off")]
    /\ catalog = <<>>
    /\ cache = None

NextLive == Next \/ \E p \in Procs : Hang(p)

\* The thread of a request keeps running: every step of the program that can
\* be taken is taken.
SpecLive == InitLive /\ [][NextLive]_vars /\ WF_vars(Next)

(***************************************************************************)
(* Classification.  get_compound_data called with the text as it is (the   *)
(* way seed.py calls it), up to the end of its classification blocks.      *)
(***************************************************************************)
ShortTexts ==
    UNION {[1..n -> {"7", "C", "a", "-", " "}] : n \in 1..2}

LongTexts ==
    {KeyAspirin,
     KeyShapedChain,
     <<" ">> \o KeyAspirin \o <<" ">>,
     Rep("k", 14) \o <<"-">> \o Rep("k", 10) \o <<"-", "k">>,
     Rep("K", 13) \o <<"-">> \o Rep("K", 10) \o <<"-", "K">>,
     Rep("K", 10) \o <<"-">> \o Rep("K", 14) \o <<"-", "K">>,
     Rep("K", 14) \o <<"-">> \o Rep("K", 10) \o <<"-", "7">>,
     Rep("7", 14) \o <<"-">> \o Rep("7", 10) \o <<"-", "7">>,
     Rep("7", 27),
     <<" ">> \o Digits}

ClassifierTexts == ShortTexts \cup LongTexts

\* get_compound_data is entered with a non-empty text.
Call(p) ==
    /\ At(p, "idle")
    /\ \E text \in ClassifierTexts : Local(p, Locals(text))
    /\ UNCHANGED <<catalog, cache>>

InitClassify ==
    /\ loc = [p \in Procs |-> IF p = 1 THEN Waiting("idle") ELSE Waiting("off")]
    /\ catalog = <<>>
    /\ cache = None

NextClassify == \E p \in Procs : Call(p) \/ StepParse(p) \/ StepClassify(p)

SpecClassify == InitClassify /\ [][NextClassify]_vars

(***************************************************************************)
(* The source-id cache over many resolutions of one server process.  Every *)
(* request is taken at block 5 with a key known; when it is past           *)
(* get_drugbank_url_from_inchikey (or left by an exception) the next       *)
(* request of that thread reaches block 5.                                 *)
(***************************************************************************)
\* The locals before block 5 of the resolutions of a structure notation
\* PubChem does not answer for (ChEMBL answering r), of a key PubChem knows
\* and of a name PubChem resolves.
StructureAtUnichem(text, r) ==
    Derive(Chembl(PubChemSkip(ByName(
        SmilesKey(ClassifyDigits(ParseIdentifier(Locals(text))), Down),
        Down)), r))

KeyedAtUnichem ==
    Derive(Chembl(PubChemNoSmiles(PubChemLink(
        ByNameSkip(SmilesKeySkip(ClassifyKey(ParseIdentifier(Locals(KeyAspirin)),
                                             Ok(Cid702))))),
        Down), Down))

NamedAtUnichem ==
    Derive(Chembl(PubChemNoSmiles(PubChemLinkAndKey(
        ByName(SmilesKeySkip(ClassifyDigits(ParseIdentifier(Locals(FreeText)))),
               Ok(Cid702)),
        Ok(KeyAspirin)), Down), Down))

AtUnichem ==
    {StructureAtUnichem(text, r) :
        text \in {Ethanol, EthanolReversed, Dummy}, r \in {Down, Ok(EthanolReversed)}}
    \cup {KeyedAtUnichem, NamedAtUnichem}

\* The source list as UniChem serves it, and the list after UniChem
\* renumbered its sources.
TheSourceList ==
    <<[name |-> <<"c","h","e","m","b","l">>, src_id |-> <<"1">>],
      [name |-> <<"D","r","u","g","B","a","n","k">>, src_id |-> <<"2">>]>>

RenumberedExchanges ==
    SourceListExchanges \cup
    {Ok(<<[name |-> <<"d","r","u","g","b","a","n","k">>, src_id |-> <<"2","2">>]>>)}

StaticExchanges == Failures \cup {Ok(TheSourceList)}

\* The next request of the thread reaches block 5.
Again(p) ==
    /\ At(p, "xrefs") \/ At(p, "raised")
    /\ \E l \in AtUnichem : Local(p, l)
    /\ UNCHANGED <<catalog, cache>>

\* The three statements of the fetch as steps of a thread.
StepRequest(p, exchanges) ==
    /\ At(p, "unichem_fetch")
    /\ \E r \in exchanges : Local(p, UnichemRequest(loc[p], r))
    /\ UNCHANGED <<catalog, cache>>

StepLoop(p) ==
    /\ At(p, "unichem_loop")
    /\ Local(p, UnichemLoop(loc[p]))
    /\ cache' = CacheAfterFetch(cache, loc[p].resp)
    /\ UNCHANGED catalog

StepReturn(p) ==
    /\ At(p, "unichem_return")
    /\ Local(p, UnichemReturn(loc[p], cache))
    /\ UNCHANGED <<catalog, cache>>

\* One thread: the resolutions follow each other.
InitCacheSeq ==
    /\ loc \in [Procs -> AtUnichem \cup {Waiting("off")}]
    /\ loc[1] \in AtUnichem
    /\ loc[2] = Waiting("off")
    /\ catalog = <<>>
    /\ cache = None

NextCacheSeq ==
    \E p \in Procs :
        \/ StepUnichem(p)
        \/ StepRequest(p, RenumberedExchanges)
        \/ StepLoop(p)
        \/ StepReturn(p)
        \/ StepUnichemMap(p)
        \/ Again(p)

SpecCacheSeq == InitCacheSeq /\ [][NextCacheSeq]_vars

\* Two threads, the source list static.
InitCache ==
    /\ loc \in [Procs -> AtUnichem]
    /\ catalog = <<>>
    /\ cache = None

NextCache ==
    \E p \in Procs :
        \/ StepUnichem(p)
        \/ StepRequest(p, StaticExchanges)
        \/ StepLoop(p)
        \/ StepReturn(p)
        \/ StepUnichemMap(p)
        \/ Again(p)

SpecCache == InitCache /\ [][NextCache]_vars

(***************************************************************************)
(* remove_duplicates.py: the script that deletes the surplus rows of every *)
(* key the catalog holds more than once.  It runs alone on the database,   *)
(* one statement a step.                                                   *)
(***************************************************************************)
\* SELECT inchi_key FROM compounds GROUP BY inchi_key HAVING
\* COUNT(inchi_key) > 1: COUNT(column) counts the rows whose column is not
\* NULL, so the group of the NULL keys counts 0.
DuplicateKeys(cat) ==
    {cat[i].inchi_key : i \in
        {j \in 1..Len(cat) :
            /\ cat[j].inchi_key # None
            /\ Cardinality({k \in 1..Len(cat) :
                               cat[k].inchi_key = cat[j].inchi_key}) > 1}}

\* fetchall(): the rows of a result in one of their orders.
Orders(set) ==
    {seq \in [1..Cardinality(set) -> set] :
        \A i, j \in 1..Cardinality(set) : i # j => seq[i] # seq[j]}

RECURSIVE Ascending(_)
Ascending(ids) ==
    IF ids = {} THEN <<>>
    ELSE LET least == CHOOSE x \in ids : \A y \in ids : x <= y
         IN  <<least>> \o Ascending(ids \ {least})

RECURSIVE Descending(_)
Descending(ids) ==
    IF ids = {} THEN <<>>
    ELSE LET most == CHOOSE x \in ids : \A y \in ids : x >= y
         IN  <<most>> \o Descending(ids \ {most})

\* Variant: ORDER BY compound_id DESC.
CompoundIds_Descending(cat, inchi_key) == Descending(Select(cat, "inchi_key", inchi_key))

\* SELECT compound_id FROM compounds WHERE inchi_key = ? ORDER BY compound_id.
CompoundIds(cat, inchi_key) == Ascending(Select(cat, "inchi_key", inchi_key))

\* compound_ids[1:]
IdsToDelete(compound_ids) ==
    IF compound_ids = <<>> THEN <<>> ELSE Tail(compound_ids)

\* Variant: DELETE ... WHERE compound_id >= the first id to delete.
DeleteRows_From(cat, ids) ==
    SelectSeq(cat, LAMBDA row : row.compound_id < ids[1])

\* DELETE FROM compounds WHERE compound_id IN (ids).
DeleteRows(cat, ids) ==
    SelectSeq(cat, LAMBDA row : \A i \in 1..Len(ids) : row.compound_id # ids[i])

\* The locals of remove_duplicates; initial is the catalog the first run
\* started on, run counts the runs.
Script(cat) ==
    [pc |-> "rd_find",
     duplicate_keys |-> <<>>,
     at |-> 1,
     compound_ids |-> <<>>,
     initial |-> cat,
     run |-> 1]

\* The catalogs the script may find: rows of uploads, in the order of their
\* ids, any of them stored more than once.
MaxRows == 4

DupCatalogs ==
    UNION {{[i \in 1..n |-> Row(i, SeedData[pick[i]])] :
               pick \in [1..n -> 1..Len(SeedData)]} : n \in 0..MaxRows}

MaxRuns == 2

\* Lines 8-19: the duplicated keys, and the return when there is none.
RdFind(p) ==
    /\ At(p, "rd_find")
    /\ \E keys \in Orders(DuplicateKeys(catalog)) :
          IF keys = <<>>
          THEN Local(p, [loc[p] EXCEPT !.duplicate_keys = keys, !.pc = "rd_done"])
          ELSE Local(p, [loc[p] EXCEPT !.duplicate_keys = keys, !.at = 1,
                                       !.pc = "rd_select"])
    /\ UNCHANGED <<catalog, cache>>

\* Lines 28-34: the ids of the rows of the key at hand.
RdSelect(p) ==
    /\ At(p, "rd_select")
    /\ Local(p, [loc[p] EXCEPT
                   !.compound_ids = CompoundIds(catalog, loc[p].duplicate_keys[loc[p].at]),
                   !.pc = "rd_delete"])
    /\ UNCHANGED <<catalog, cache>>

\* Lines 37-47: delete all but the first and commit; then the next key.
RdDelete(p) ==
    /\ At(p, "rd_delete")
    /\ catalog' = IF IdsToDelete(loc[p].compound_ids) # <<>>
                  THEN DeleteRows(catalog, IdsToDelete(loc[p].compound_ids))
                  ELSE catalog
    /\ IF loc[p].at < Len(loc[p].duplicate_keys)
       THEN Local(p, [loc[p] EXCEPT !.at = @ + 1, !.pc = "rd_select"])
       ELSE Local(p, [loc[p] EXCEPT !.pc = "rd_done"])
    /\ UNCHANGED cache

\* The script is run again.
RdAgain(p) ==
    /\ At(p, "rd_done")
    /\ loc[p].run < MaxRuns
    /\ Local(p, [loc[p] EXCEPT !.duplicate_keys = <<>>, !.at = 1,
                               !.compound_ids = <<>>, !.run = @ + 1,
                               !.pc = "rd_find"])
    /\ UNCHANGED <<catalog, cache>>

InitRemove ==
    /\ catalog \in DupCatalogs
    /\ loc = [p \in Procs |-> IF p = 1 THEN Script(catalog) ELSE Waiting("off")]
    /\ cache = None

NextRemove ==
    \E p \in Procs :
        \/ RdFind(p)
        \/ RdSelect(p)
        \/ RdDelete(p)
        \/ RdAgain(p)

SpecRemove == InitRemove /\ [][NextRemove]_vars

(***************************************************************************)
(* seed.py: seed_database resolves a list of names and inserts the records *)
(* that have a key, on one connection and in one transaction.  The         *)
(* database holds catalog; pending are the rows the connection has         *)
(* inserted and not committed, which its own statements see.               *)
(***************************************************************************)
\* The limit of fetch_compounds_by_name_list.
Limit == 100

\* fetch_compounds_by_name_list over the records get_compound_data returned
\* for the names: those with a key, up to the limit.
RECURSIVE FetchByNameList(_, _)
FetchByNameList(results, compounds) ==
    IF results = <<>> \/ Len(compounds) >= Limit THEN compounds
    ELSE FetchByNameList(Tail(results),
                         IF Truthy(Head(results).inchi_key)
                         THEN Append(compounds, Head(results))
                         ELSE compounds)

\* Variant: a statement sees the committed rows only.
Visible_Committed(cat, pending) == cat

\* The table as the statements of the connection see it.
Visible(cat, pending) == cat \o pending

\* conn.commit()
Commit(cat, pending) == cat \o pending

\* Variant: the rows inserted before the error are kept.
Rollback_KeepsInserted(cat, pending) == cat \o pending

\* conn.rollback()
Rollback(cat, pending) == cat

\* The locals of seed_database; initial is the catalog at the start.
Seeding(cat) ==
    [pc |-> "sd_connect",
     compounds_to_insert |-> <<>>,
     at |-> 1,
     pending |-> <<>>,
     inserted_count |-> 0,
     skipped_count |-> 0,
     outcome |-> "pending",
     initial |-> cat]

\* The longest list of names.
MaxNames == 3

\* The records get_compound_data returns for the names of a list; a name
\* listed twice gives its record twice.
NameResults ==
    UNION {[1..n -> {SeedData[i] : i \in 1..Len(SeedData)}] : n \in 0..MaxNames}

\* After the row at hand: the next record, or the commit.
SeedingNext(l) ==
    IF l.at < Len(l.compounds_to_insert)
    THEN [l EXCEPT !.at = @ + 1, !.pc = "sd_check"]
    ELSE [l EXCEPT !.pc = "sd_commit"]

\* get_db_connection: the connection, or None and the function returns.
SdConnect(p) ==
    /\ At(p, "sd_connect")
    /\ \/ Local(p, [loc[p] EXCEPT !.pc = "sd_fetch"])
       \/ Local(p, [loc[p] EXCEPT !.outcome = "dbfail", !.pc = "done"])
    /\ UNCHANGED <<catalog, cache>>

\* fetch_compounds_by_name_list; an exception of get_compound_data is no
\* sqlite3.Error and leaves through the finally block.
SdFetch(p) ==
    /\ At(p, "sd_fetch")
    /\ \/ \E results \in NameResults :
            LET compounds == FetchByNameList(results, <<>>)
            IN  Local(p, [loc[p] EXCEPT !.compounds_to_insert = compounds,
                                         !.pc = IF compounds = <<>> THEN "sd_commit"
                                                ELSE "sd_check"])
       \/ Local(p, [loc[p] EXCEPT !.outcome = "error", !.pc = "done"])
    /\ UNCHANGED <<catalog, cache>>

\* SELECT compound_id FROM compounds WHERE inchi_key = ?, and the skip.
SdCheck(p) ==
    /\ At(p, "sd_check")
    /\ LET data == loc[p].compounds_to_insert[loc[p].at]
       IN  IF Select(Visible(catalog, loc[p].pending), "inchi_key", data.inchi_key) # {}
           THEN Local(p, SeedingNext([loc[p] EXCEPT !.skipped_count = @ + 1]))
           ELSE Local(p, [loc[p] EXCEPT !.pc = "sd_insert"])
    /\ UNCHANGED <<catalog, cache>>

\* The INSERT, not committed.
SdInsert(p) ==
    /\ At(p, "sd_insert")
    /\ LET data == loc[p].compounds_to_insert[loc[p].at]
           id == MaxId(Visible(catalog, loc[p].pending)) + 1
       IN  Local(p, SeedingNext([loc[p] EXCEPT !.pending = Append(@, Row(id, data)),
                                               !.inserted_count = @ + 1]))
    /\ UNCHANGED <<catalog, cache>>

\* conn.commit() after the loop.
SdCommit(p) ==
    /\ At(p, "sd_commit")
    /\ catalog' = Commit(catalog, loc[p].pending)
    /\ Local(p, [loc[p] EXCEPT !.pending = <<>>, !.outcome = "committed", !.pc = "done"])
    /\ UNCHANGED cache

\* `except sqlite3.Error` at a SELECT, an INSERT or the commit: rollback.
SdDbError(p) ==
    /\ At(p, "sd_check") \/ At(p, "sd_insert") \/ At(p, "sd_commit")
    /\ catalog' = Rollback(catalog, loc[p].pending)
    /\ Local(p, [loc[p] EXCEPT !.pending = <<>>, !.outcome = "rolledback", !.pc = "done"])
    /\ UNCHANGED cache

InitSeed ==
    /\ catalog \in SeedCatalogs
    /\ loc = [p \in Procs |-> IF p = 1 THEN Seeding(catalog) ELSE Waiting("off")]
    /\ cache = None

NextSeed ==
    \E p \in Procs :
        \/ SdConnect(p)
        \/ SdFetch(p)
        \/ SdCheck(p)
        \/ SdInsert(p)
        \/ SdCommit(p)
        \/ SdDbError(p)

SpecSeed == InitSeed /\ [][NextSeed]_vars

(***************************************************************************)
(* Properties.                                                             *)
(***************************************************************************)
\* get_compound_data has returned its dictionary to request p.
HasRecord(p) ==
    \/ loc[p].pc \in {"returned", "connect", "dedup", "insert"}
    \/ loc[p].pc = "done" /\ loc[p].outcome \notin {"pending", "required", "error"}

Parses(text) == MolFromSmiles(text) # NoMol

\* Free text: neither digits, nor key-shaped, nor a structure notation.
IsFreeText(text) ==
    ~looks_like_pubchem_cid(text) /\ ~looks_like_inchikey(text) /\ ~Parses(text)

\* The catalog as request p's duplicate check saw it: without the row p
\* inserted.
Before(p) ==
    IF loc[p].outcome = "inserted"
    THEN SelectSeq(catalog, LAMBDA row : row.compound_id # loc[p].existing)
    ELSE catalog

MatchesOf(d, cat, field) ==
    IF Truthy(d[field]) THEN Select(cat, field, d[field]) ELSE {}

\* The rows the first matching check, in the order key, normalized structure,
\* raw structure, common name, selects.
FirstMatch(d, cat) ==
    IF MatchesOf(d, cat, "inchi_key") # {} THEN MatchesOf(d, cat, "inchi_key")
    ELSE IF MatchesOf(d, cat, "smiles_normalized") # {}
         THEN MatchesOf(d, cat, "smiles_normalized")
    ELSE IF MatchesOf(d, cat, "smiles_raw") # {} THEN MatchesOf(d, cat, "smiles_raw")
    ELSE MatchesOf(d, cat, "common_name")

\* C1: the duplicate check evaluates key, normalized structure, raw structure,
\* common name (case-insensitive) in this order, each by exact match and
\* skipped when the record's field is empty; the first check that matches
\* decides: a duplicate is a row of that check, and a row is inserted only
\* when no check matches.  With a raw-structure row and a name-only row the
\* raw-structure row is returned.
C1_CascadeOrder ==
    \A p \in Procs :
        /\ loc[p].outcome = "duplicate" =>
              loc[p].existing \in FirstMatch(Data(loc[p]), catalog)
        /\ loc[p].outcome = "inserted" => FirstMatch(Data(loc[p]), Before(p)) = {}

C1_Witness ==
    \E p \in Procs :
        LET d == Data(loc[p])
        IN  /\ loc[p].outcome = "duplicate"
            /\ MatchesOf(d, catalog, "inchi_key") = {}
            /\ MatchesOf(d, catalog, "smiles_normalized") = {}
            /\ MatchesOf(d, catalog, "smiles_raw") # {}
            /\ MatchesOf(d, catalog, "common_name") # {}
            /\ MatchesOf(d, catalog, "common_name")
                   \cap MatchesOf(d, catalog, "smiles_raw") = {}
            /\ loc[p].existing \in MatchesOf(d, catalog, "smiles_raw")

\* The case of C2: a free-text name for which PubChem gave a CID and, by that
\* CID, a key.
NameResolvedWithKey(p) ==
    /\ HasRecord(p)
    /\ IsFreeText(loc[p].identifier)
    /\ Truthy(loc[p].pubchem_cid)
    /\ Truthy(loc[p].fetched_inchi_key)

\* The catalog held a row with key k, and the upload of p ended at it: the
\* key check matched, and nothing was inserted.
MatchedByKey(p, k) ==
    Select(Before(p), "inchi_key", k) # {} =>
        /\ loc[p].outcome # "inserted"
        /\ loc[p].pc # "insert"
        /\ loc[p].pc = "dedup" => loc[p].step = 1
        /\ loc[p].outcome = "duplicate" =>
              loc[p].existing \in Select(Before(p), "inchi_key", k)

\* C2 as claimed: for a free-text name with a CID and a key K from PubChem,
\* the record has the PubChem link, and with a row of key K in the catalog the
\* key check returns that row and nothing is inserted, whatever the other
\* calls return.
C2_KeyAlwaysMatches ==
    \A p \in Procs :
        NameResolvedWithKey(p) =>
            /\ HasSource(loc[p].sources, <<"PubChem">>)
            /\ MatchedByKey(p, loc[p].fetched_inchi_key)

\* C2 as amended: the same, provided the record's final key is K (no structure
\* was obtained, or it does not parse, or the key derived from it is K).
C2_KeyMatchesWhenKept ==
    \A p \in Procs :
        NameResolvedWithKey(p) =>
            /\ HasSource(loc[p].sources, <<"PubChem">>)
            /\ loc[p].inchi_key = loc[p].fetched_inchi_key =>
                  MatchedByKey(p, loc[p].fetched_inchi_key)

C2_Witness ==
    \E p \in Procs :
        /\ NameResolvedWithKey(p)
        /\ Truthy(loc[p].smiles)
        /\ loc[p].inchi_key = loc[p].fetched_inchi_key
        /\ loc[p].outcome = "duplicate"
        /\ loc[p].step = 1
        /\ loc[p].existing \in Select(catalog, "inchi_key", loc[p].fetched_inchi_key)

\* The case of C3: the identifier is no structure notation and every adapter
\* call returned None.
NothingFound(p) ==
    /\ HasRecord(p)
    /\ ~Parses(loc[p].identifier)
    /\ loc[p].unavailable

Unresolvable(p) ==
    /\ Data(loc[p]).smiles_raw = None
    /\ Data(loc[p]).sources = <<>>
    /\ loc[p].pc \in {"returned", "done"}
    /\ loc[p].pc = "done" => loc[p].outcome = "unresolvable"

\* C3 as claimed: an identifier that is no structure notation (free text,
\* key-shaped or all digits), with every adapter call unavailable, is
\* Unresolvable: no structure, no link, nothing stored.
C3_AlwaysUnresolvable == \A p \in Procs : NothingFound(p) => Unresolvable(p)

\* C3 as amended: that holds for free text and key-shaped identifiers; an
\* all-digit identifier is taken as the CID, so its record has no structure
\* and exactly the PubChem link of that CID, and upload does not refuse it.
C3_UnresolvableUnlessDigits ==
    \A p \in Procs :
        NothingFound(p) =>
            IF looks_like_pubchem_cid(loc[p].identifier)
            THEN /\ Data(loc[p]).smiles_raw = None
                 /\ Data(loc[p]).sources =
                        <<[db_name |-> <<"PubChem">>,
                           url |-> PubChemUrl(loc[p].identifier)]>>
                 /\ loc[p].outcome # "unresolvable"
            ELSE Unresolvable(p)

C3_Witness ==
    \E p \in Procs :
        /\ NothingFound(p)
        /\ looks_like_inchikey(loc[p].identifier)
        /\ loc[p].pc = "done"
        /\ loc[p].outcome = "unresolvable"

\* C4: upload refuses a record exactly when it has neither a structure nor a
\* source link: no row of the catalog comes from a record lacking both, and a
\* record with links and no structure goes on to the duplicate check and the
\* insert.
C4_RefusesExactlyEmpty ==
    /\ \A i \in 1..Len(catalog) :
          Truthy(catalog[i].smiles_raw) \/ catalog[i].metadata # <<>>
    /\ \A p \in Procs :
          HasRecord(p) /\ loc[p].pc # "returned" =>
              (loc[p].outcome = "unresolvable"
                  <=> (~Truthy(loc[p].smiles) /\ loc[p].sources = <<>>))

C4_Witness ==
    \E p \in Procs :
        /\ loc[p].outcome = "inserted"
        /\ ~Truthy(loc[p].smiles)
        /\ loc[p].sources # <<>>
        /\ \E i \in 1..Len(catalog) :
              /\ catalog[i].compound_id = loc[p].existing
              /\ catalog[i].smiles_raw = None
              /\ catalog[i].metadata = loc[p].sources

\* C5: the final raw structure is the one obtained earliest: the identifier
\* when it parses, else PubChem's structure, else ChEMBL's.
C5_EarliestStructure ==
    \A p \in Procs :
        HasRecord(p) =>
            Data(loc[p]).smiles_raw =
                IF Parses(loc[p].identifier) THEN loc[p].identifier
                ELSE IF Truthy(loc[p].pubchem_smiles) THEN loc[p].pubchem_smiles
                ELSE IF Truthy(loc[p].chembl_smiles) THEN loc[p].chembl_smiles
                ELSE None

C5_Witness ==
    \E p \in Procs :
        /\ HasRecord(p)
        /\ ~Parses(loc[p].identifier)
        /\ Truthy(loc[p].pubchem_smiles)
        /\ Truthy(loc[p].chembl_smiles)
        /\ loc[p].pubchem_smiles # loc[p].chembl_smiles
        /\ Data(loc[p]).smiles_raw = loc[p].pubchem_smiles

\* A step of request p leaves field f as it is once f is set.
Keeps(p, f) == Truthy(loc[p][f]) => loc'[p][f] = loc[p][f]

\* C6 as claimed: once the structure, the key, the working CID, the
\* systematic name or the common name is set, no later step changes it.
C6_FirstWriterWins ==
    [][\A p \in Procs :
          \A f \in {"smiles", "inchi_key", "current_pubchem_cid",
                    "iupac_name", "common_name"} : Keeps(p, f)]_vars

\* C6 as amended: the structure, the names and the CID of the record are
\* first-writer-wins.  The key is not: the blocks that parse a structure
\* replace it by the key derived from that structure (None when there is
\* none); and the working CID is replaced only by the lookup for the key
\* derived from the identifier.
C6_FirstWriterWinsButKey ==
    [][\A p \in Procs :
          /\ \A f \in {"smiles", "iupac_name", "common_name", "pubchem_cid"} :
                Keeps(p, f)
          /\ ~Keeps(p, "inchi_key") =>
                /\ loc[p].pc \in {"smiles_key", "derive"}
                /\ Parses(loc[p].smiles)
                /\ loc'[p].inchi_key =
                       InchiToInchiKey(MolToInchi(MolFromSmiles(loc[p].smiles)))
          /\ ~Keeps(p, "current_pubchem_cid") =>
                /\ loc[p].pc = "smiles_key"
                /\ Parses(loc[p].identifier)]_vars

C6_Witness ==
    \E p \in Procs :
        /\ HasRecord(p)
        /\ Truthy(loc[p].fetched_inchi_key)
        /\ Truthy(loc[p].inchi_key)
        /\ loc[p].inchi_key # loc[p].fetched_inchi_key
        /\ Truthy(loc[p].pubchem_smiles)
        /\ Truthy(loc[p].chembl_smiles)
        /\ loc[p].smiles = loc[p].pubchem_smiles
        /\ loc[p].smiles # loc[p].chembl_smiles

\* C7 as claimed: in a returned record without structure, the long
\* identifier, the key, the formula, the weight, the fingerprint and the
\* depiction are all None.
C7_NoStructureNoDerived ==
    \A p \in Procs :
        HasRecord(p) /\ Data(loc[p]).smiles_raw = None =>
            /\ Data(loc[p]).inchi = None
            /\ Data(loc[p]).inchi_key = None
            /\ Data(loc[p]).molecular_formula = None
            /\ Data(loc[p]).molecular_weight = None
            /\ Data(loc[p]).fingerprint = None
            /\ Data(loc[p]).structure_2d_svg = None

\* C7 as amended: without structure, the long identifier, the formula, the
\* weight, the fingerprint, the depiction and the normalized form are None;
\* the key may be set (given by the user or fetched from PubChem).
C7_NoStructureNoDerivedButKey ==
    \A p \in Procs :
        HasRecord(p) /\ Data(loc[p]).smiles_raw = None =>
            /\ Data(loc[p]).inchi = None
            /\ Data(loc[p]).molecular_formula = None
            /\ Data(loc[p]).molecular_weight = None
            /\ Data(loc[p]).fingerprint = None
            /\ Data(loc[p]).structure_2d_svg = None
            /\ Data(loc[p]).smiles_normalized = None

C7_Witness ==
    \E p \in Procs :
        /\ HasRecord(p)
        /\ Data(loc[p]).smiles_raw = None
        /\ Truthy(Data(loc[p]).inchi_key)
        /\ loc[p].outcome = "inserted"

\* C8: the failure of a source call is downgraded to "not found": no
\* exception leaves an adapter or get_compound_data, and upload never ends
\* with the resolution aborted.
C8_NoExceptionEscapes ==
    \A p \in Procs : loc[p].pc # "raised" /\ loc[p].outcome # "error"

\* C9: an identifier that parses, with no source reachable, gives a record
\* with the identifier as raw structure, the one link "User-provided", and a
\* formula, a weight and a fingerprint; upload does not refuse it.
C9_StructureAloneSuffices ==
    \A p \in Procs :
        HasRecord(p) /\ Parses(loc[p].identifier) /\ loc[p].unreachable =>
            /\ Data(loc[p]).smiles_raw = loc[p].identifier
            /\ Data(loc[p]).sources =
                   <<[db_name |-> <<"User-provided">>, url |-> <<"#">>]>>
            /\ Data(loc[p]).molecular_formula # None
            /\ Data(loc[p]).molecular_weight # None
            /\ Data(loc[p]).fingerprint # None
            /\ loc[p].outcome # "unresolvable"

C9_Witness ==
    \E p \in Procs :
        /\ Parses(loc[p].identifier)
        /\ loc[p].unreachable
        /\ loc[p].outcome = "inserted"
        /\ Data(loc[p]).fingerprint # None

\* C10: for a structure notation S the raw structure, the long identifier and
\* the key of the record are functions of S alone, so any two runs on S give
\* the same ones whatever the sources answer.
C10_IdentifierDeterminedByInput ==
    \A p \in Procs :
        HasRecord(p) /\ Parses(loc[p].identifier) =>
            /\ Data(loc[p]).smiles_raw = loc[p].identifier
            /\ Data(loc[p]).inchi = MolToInchi(MolFromSmiles(loc[p].identifier))
            /\ Data(loc[p]).inchi_key =
                   InchiToInchiKey(MolToInchi(MolFromSmiles(loc[p].identifier)))

C10_Witness ==
    \E p \in Procs :
        /\ HasRecord(p)
        /\ Parses(loc[p].identifier)
        /\ Truthy(loc[p].fetched_inchi_key)
        /\ Truthy(loc[p].pubchem_smiles)
        /\ loc[p].pubchem_smiles # loc[p].identifier
        /\ Truthy(loc[p].chembl_smiles)
        /\ Data(loc[p]).inchi_key # loc[p].fetched_inchi_key

\* The list holds one link per name.
OneLinkPerName(sources) ==
    \A i, j \in 1..Len(sources) :
        sources[i].db_name = sources[j].db_name => i = j

C12_AddSourceIdempotent ==
    \A p \in Procs :
        /\ OneLinkPerName(loc[p].sources)
        /\ \A i \in 1..Len(loc[p].sources) :
              /\ add_source(loc[p].sources, loc[p].sources[i].db_name, <<"#2">>)
                     = loc[p].sources
              /\ add_source(loc[p].sources, loc[p].sources[i].db_name,
                            loc[p].sources[i].url) = loc[p].sources

C12_Witness ==
    \E p \in Procs :
        /\ loc[p].pc = "finish"
        /\ Len(loc[p].sources) = 4
        /\ HasSource(loc[p].sources, <<"DrugBank">>)
        /\ HasSource(loc[p].sources, <<"User-provided">>)

\* C13: the duplicate check and the insert act as one transaction: two
\* concurrent uploads that resolve to the same compound (the same key) never
\* both find no match and both insert.
C13_NoDoubleInsert ==
    \A p, q \in Procs :
        /\ p # q
        /\ Truthy(Data(loc[p]).inchi_key)
        /\ Data(loc[p]).inchi_key = Data(loc[q]).inchi_key
        => ~(loc[p].outcome = "inserted" /\ loc[q].outcome = "inserted")

\* C14: every resolution eventually returns: get_compound_data, once
\* entered, is left (with its dictionary, or by the exception of C8); a source
\* that never answers does not block it forever.
C14_EventuallyReturns ==
    \A p \in Procs :
        (loc[p].pc = "parse") ~> (loc[p].pc \in {"returned", "raised"})

\* The shapes of the classifier, written out: three groups of 14, 10 and 1
\* uppercase letters joined by hyphens; digits only.
KeyShape(text) ==
    /\ Len(text) = 27
    /\ \A i \in 1..27 :
          IF i \in {15, 26} THEN text[i] = "-" ELSE text[i] \in Upper

DigitsOnly(text) == text # <<>> /\ \A i \in 1..Len(text) : text[i] \in Digit

\* The kind the classification blocks gave the identifier of l, read from
\* what they assigned: the identifier as working CID, or as key.
KindGiven(l) ==
    {k \in {"RegistryNumber", "StandardizedKey", "FreeTextOrStructure"} :
        \/ k = "RegistryNumber" /\ l.current_pubchem_cid = l.identifier
        \/ k = "StandardizedKey" /\ l.inchi_key = l.identifier
        \/ /\ k = "FreeTextOrStructure"
           /\ l.current_pubchem_cid # l.identifier
           /\ l.inchi_key # l.identifier}

KindOfShape(text) ==
    IF KeyShape(Strip(text)) THEN "StandardizedKey"
    ELSE IF DigitsOnly(text) THEN "RegistryNumber"
    ELSE "FreeTextOrStructure"

\* C15: classification is total and unambiguous: no text has both shapes,
\* and after the classification blocks every non-empty identifier has
\* exactly one kind, the one of its shape (the key shape up to surrounding
\* blanks), whichever shape is tested first.
C15_OneKind ==
    \A p \in Procs :
        loc[p].pc \in {"parse", "classify", "smiles_key"} =>
            /\ ~(looks_like_inchikey(loc[p].identifier)
                    /\ looks_like_pubchem_cid(loc[p].identifier))
            /\ ~(KeyShape(Strip(loc[p].identifier)) /\ DigitsOnly(loc[p].identifier))
            /\ loc[p].pc = "smiles_key" =>
                  KindGiven(loc[p]) = {KindOfShape(loc[p].identifier)}

C15_Witness ==
    \E p \in Procs :
        /\ loc[p].pc = "smiles_key"
        /\ loc[p].identifier = <<" ">> \o KeyAspirin \o <<" ">>
        /\ KindGiven(loc[p]) = {"StandardizedKey"}

\* The blocks after the PubChem link of lines 335-339, and the record.
PastPubChemLink(p) ==
    \/ HasRecord(p)
    \/ loc[p].pc \in {"pubchem_data", "chembl", "derive", "unichem",
                      "unichem_fetch", "unichem_map", "xrefs", "finish"}

\* C16: for a digits-only identifier the working CID is the identifier
\* itself from the classification on: no key or name lookup replaces or
\* resets it, it is the CID of the PubChem link and of the record, hence of
\* every fetch by CID, whatever the adapters return.
C16_DigitsAreTheCid ==
    \A p \in Procs :
        DigitsOnly(loc[p].identifier) =>
            /\ loc[p].pc \notin {"parse", "classify"} =>
                  loc[p].current_pubchem_cid = loc[p].identifier
            /\ PastPubChemLink(p) =>
                  /\ loc[p].pubchem_cid = loc[p].identifier
                  /\ \E i \in 1..Len(loc[p].sources) :
                        loc[p].sources[i] =
                            [db_name |-> <<"PubChem">>,
                             url |-> PubChemUrl(loc[p].identifier)]

C16_Witness ==
    \E p \in Procs :
        /\ DigitsOnly(loc[p].identifier)
        /\ loc[p].outcome = "inserted"
        /\ Truthy(loc[p].fetched_inchi_key)
        /\ Truthy(loc[p].pubchem_smiles)
        /\ Truthy(loc[p].common_name)
        /\ loc[p].pubchem_cid = loc[p].identifier

C18_NamesFetchedForCid ==
    \A p \in Procs :
        HasRecord(p) /\ Truthy(loc[p].pubchem_cid) => loc[p].asked_names

\* get_compound_data was entered by request p and is over: it returned its
\* dictionary or it was left by an exception.
ResolutionOver(p) ==
    HasRecord(p) \/ loc[p].pc = "raised" \/ loc[p].outcome = "error"

\* C19: the ChEMBL lookup is made in every resolution, whatever the parse
\* step and PubChem gave; its structure is adopted only when none is set, and
\* its link is recorded whenever it returned a structure, adopted or not.
C19_ChemblAlwaysAsked ==
    \A p \in Procs :
        ResolutionOver(p) =>
            /\ loc[p].asked_chembl
            /\ Truthy(loc[p].chembl_smiles) =>
                  /\ HasSource(loc[p].sources, <<"ChEMBL">>)
                  /\ loc[p].smiles = loc[p].chembl_smiles
                     \/ Parses(loc[p].identifier)
                     \/ Truthy(loc[p].pubchem_smiles)

\* The fields of the record other than its links.
RecordFields ==
    {"smiles", "iupac_name", "common_name", "pubchem_cid", "inchi", "inchi_key",
     "structure_2d_svg", "molecular_formula", "molecular_weight",
     "smiles_normalized", "fingerprint"}

\* The step adds nothing to the links of p, or one DrugBank link where there
\* was none.
AddsAtMostDrugBank(p) ==
    \/ loc'[p].sources = loc[p].sources
    \/ /\ ~HasSource(loc[p].sources, <<"DrugBank">>)
       /\ Len(loc'[p].sources) = Len(loc[p].sources) + 1
       /\ SubSeq(loc'[p].sources, 1, Len(loc[p].sources)) = loc[p].sources
       /\ loc'[p].sources[Len(loc'[p].sources)].db_name = <<"DrugBank">>

\* The order of the blocks 5 and 5b: the UniChem lookup runs exactly when a
\* key is known, the xrefs fallback adds a link only when none is there and a
\* CID is known, and the steps change nothing else of the record.
AugmentsInOrder(p) ==
    /\ loc[p].pc = "unichem" =>
          (loc'[p].pc \in {"unichem_fetch", "unichem_map"}
              <=> Truthy(loc[p].inchi_key))
    /\ loc[p].pc \in {"unichem", "unichem_fetch", "unichem_map", "xrefs"} =>
          /\ AddsAtMostDrugBank(p)
          /\ \A f \in RecordFields : loc'[p][f] = loc[p][f]
    /\ loc[p].pc = "xrefs" /\ loc'[p].sources # loc[p].sources =>
          Truthy(loc[p].pubchem_cid)

\* The two queries of the xrefs fallback: the dedicated one first, the
\* generic one only when the first gave nothing.
DedicatedQueryFirst ==
    \A rd \in XrefExchanges, rr \in RegistryExchanges :
        /\ rd.kind = "ok" /\ rd.val # <<>> =>
              get_drugbank_url_from_pubchem_cid(rd, rr) = DrugBankUrl(rd.val[1])
        /\ rd.kind \in {"neterr", "status", "nokey", "empty"}
           /\ rr.kind \in {"neterr", "status", "nokey", "empty"} =>
              get_drugbank_url_from_pubchem_cid(rd, rr) = None

\* C20: cross-reference augmentation follows the fixed fallback order
\* (UniChem by key exactly when a key is known, then the dedicated xrefs
\* query, then the generic one), leaves at most one DrugBank link, from the
\* earliest path that succeeded, and when every path fails it leaves the
\* record as it is and reports no error.
C20_AugmentationNeverFails ==
    [][\A p \in Procs :
          /\ AugmentsInOrder(p)
          /\ DedicatedQueryFirst
          /\ loc[p].pc \in {"unichem", "unichem_fetch", "unichem_map", "xrefs"} =>
                loc'[p].pc # "raised"]_vars

\* C21: the cache of the UniChem source id starts empty, and once it holds a
\* source id it is never written again: every later call that needs the id
\* takes it from the cache and proceeds to the mapping query without fetching
\* the source list, whatever UniChem would answer by then.
C21_CachePopulatedOnce ==
    [][/\ cache # None => cache' = cache
       /\ \A p \in Procs :
             (cache # None /\ loc[p].pc = "unichem" /\ loc'[p] # loc[p]) =>
                /\ loc'[p].pc # "unichem_fetch"
                /\ Truthy(loc[p].inchi_key) =>
                      loc'[p].pc = "unichem_map" /\ loc'[p].src_id = cache]_vars

\* A later call is at the mapping query with the cached id, no exchange made.
C21_Witness ==
    /\ cache # None
    /\ loc[1].pc = "unichem_map"
    /\ loc[1].src_id = cache
    /\ loc[1].unreachable

\* The source list holds a DrugBank source.
Matching(r) == r.kind = "ok" /\ FindDrugBankSource(r.val) # None

\* C22: a miss is not cached.  While the cache is empty a call that needs
\* the id fetches the source list; a fetch that fails, is refused or lists no
\* DrugBank source leaves the cache empty and the call returns "not found"
\* (no mapping query, no link added); a fetch that lists DrugBank populates
\* the cache, also after earlier misses.
C22_MissNotCached ==
    [][\A p \in Procs :
          (cache = None /\ loc'[p] # loc[p]) =>
             /\ (loc[p].pc = "unichem" /\ Truthy(loc[p].inchi_key)) =>
                    loc'[p].pc = "unichem_fetch"
             /\ loc[p].pc = "unichem_fetch" =>
                    /\ cache' = None
                    /\ loc'[p].pc \in {"xrefs", "unichem_loop"}
                    /\ loc'[p].pc = "unichem_loop" =>
                          loc'[p].resp.kind \notin {"neterr", "status"}
             /\ loc[p].pc = "unichem_loop" =>
                    cache' = IF Matching(loc[p].resp)
                             THEN FindDrugBankSource(loc[p].resp.val) ELSE None
             /\ loc[p].pc = "unichem_return" =>
                    /\ loc'[p].pc = "xrefs"
                    /\ loc'[p].sources = loc[p].sources]_vars

\* A call for CCO got a source list without DrugBank and returned not found,
\* the cache still empty.
C22_Witness ==
    /\ cache = None
    /\ loc[1] = [Called(StructureAtUnichem(Ethanol, Down),
                         {Ok(<<Head(TheSourceList)>>)}, TRUE) EXCEPT !.pc = "xrefs"]

\* C23: concurrent first populations converge.  With a static source list,
\* in every interleaving of requests that found the cache empty and fetch the
\* list, the cache holds nothing or the id a single population writes, a
\* thread past the loop of a successful fetch finds that id in the cache, and
\* every thread that goes on to the mapping query carries that id.
C23_PopulationsConverge ==
    /\ cache \in {None, FindDrugBankSource(TheSourceList)}
    /\ \A p \in Procs :
          /\ (loc[p].pc = "unichem_return" /\ Matching(loc[p].resp)) =>
                cache = FindDrugBankSource(TheSourceList)
          /\ loc[p].pc = "unichem_map" =>
                loc[p].src_id = FindDrugBankSource(TheSourceList)

\* Both threads found the cache empty; one has written and is about to read
\* the global while the other is about to write it.
C23_Witness ==
    /\ cache # None
    /\ loc[1].pc = "unichem_return"
    /\ loc[2].pc = "unichem_loop"
    /\ Matching(loc[2].resp)

\* The catalog after a step holds the rows it held, in place and unchanged.
RowsKept == /\ Len(catalog') >= Len(catalog)
            /\ SubSeq(catalog', 1, Len(catalog)) = catalog

\* C24: the catalog is append-only under upload.  Every step keeps the
\* existing rows as they are and adds at most one row, and only for a request
\* none of whose checks matched; the step in which a check matches leaves
\* the catalog unchanged, ends the request and points it to a row of the
\* catalog that the check selected.
C24_AppendOnly ==
    [][/\ RowsKept
       /\ Len(catalog') <= Len(catalog) + 1
       /\ catalog' # catalog =>
             \E p \in Procs : /\ loc[p].pc = "insert"
                               /\ loc[p].outcome = "pending"
                               /\ loc'[p].outcome = "inserted"
       /\ \A p \in Procs :
             (loc[p].outcome # "duplicate" /\ loc'[p].outcome = "duplicate") =>
                /\ catalog' = catalog
                /\ loc'[p].pc = "done"
                /\ \E f \in {"inchi_key", "smiles_normalized", "smiles_raw", "common_name"} :
                      loc'[p].existing \in MatchesOf(Data(loc[p]), catalog, f)]_vars

\* A check after the first matched a row of a catalog of two rows.
C24_Witness ==
    /\ loc[1].outcome = "duplicate"
    /\ loc[1].step > 1
    /\ Len(catalog) = 2
    /\ \E i \in 1..2 : catalog[i].compound_id = loc[1].existing

\* C25: in every returned record whose structure is set and parses, the long
\* identifier and the key are the ones derived from that final structure,
\* also when another key was given by the user or fetched before; so are the
\* formula, the weight and the normalized form.
C25_DerivedFromFinalStructure ==
    \A p \in Procs :
        LET d == Data(loc[p])
        IN  (HasRecord(p) /\ Truthy(d.smiles_raw) /\ Parses(d.smiles_raw)) =>
                /\ d.inchi = MolToInchi(MolFromSmiles(d.smiles_raw))
                /\ d.inchi_key = InchiToInchiKey(MolToInchi(MolFromSmiles(d.smiles_raw)))
                /\ d.molecular_formula = CalcMolFormula(MolFromSmiles(d.smiles_raw))
                /\ d.molecular_weight = CalcExactMolWt(MolFromSmiles(d.smiles_raw))
                /\ d.smiles_normalized = standardize_smiles(d.smiles_raw)

\* The user gave a key, PubChem gave a structure for it, and the record
\* carries the key of that structure, which is another one.
C25_Witness ==
    /\ HasRecord(1)
    /\ looks_like_inchikey(loc[1].identifier)
    /\ Truthy(Data(loc[1]).smiles_raw)
    /\ Parses(Data(loc[1]).smiles_raw)
    /\ Data(loc[1]).inchi_key # loc[1].identifier
    /\ loc[1].outcome = "inserted"

\* The catalog before request p holds the row of an upload that resolved to
\* the record p resolved to.
UploadedBefore(p) ==
    \E i \in 1..Len(Before(p)) :
        Before(p)[i] = Row(Before(p)[i].compound_id, Data(loc[p]))

\* C26: sequential uploads are idempotent.  An upload that resolves to the
\* record an earlier upload stored adds no row, whatever the kind of the
\* record, link-only records included.
C26_SequentialIdempotent ==
    \A p \in Procs : UploadedBefore(p) => loc[p].outcome # "inserted"

Rows(cat) == {cat[i] : i \in 1..Len(cat)}

\* The rows of cat that carry key k, NULL carried by none.
Carrying(cat, k) == {row \in Rows(cat) : k # None /\ row.inchi_key = k}

\* C27: when remove_duplicates has run, no two rows of the catalog share a
\* key that is not NULL, every such key of the catalog it started on is still
\* carried, by the row of the smallest compound_id among those that carried
\* it, and a second run deletes nothing.
C27_OneRowPerKey ==
    [][/\ loc'[1].pc = "rd_done" =>
             \A row \in Rows(catalog') :
                row.inchi_key # None => Carrying(catalog', row.inchi_key) = {row}
       /\ loc'[1].pc = "rd_done" =>
             \A row \in Rows(loc'[1].initial) :
                row.inchi_key # None =>
                   \E kept \in Rows(catalog') :
                      /\ Carrying(catalog', row.inchi_key) = {kept}
                      /\ \A other \in Carrying(loc'[1].initial, row.inchi_key) :
                            kept.compound_id <= other.compound_id
       /\ loc[1].run > 1 => catalog' = catalog]_vars

\* Two keys were carried twice; the first run deleted a row of each and the
\* second run is over.
C27_Witness ==
    /\ loc[1].pc = "rd_done"
    /\ loc[1].run = 2
    /\ Len(loc[1].initial) = 4
    /\ Len(catalog) = 2
    /\ catalog[1].inchi_key # catalog[2].inchi_key

\* C28: remove_duplicates deletes only surplus rows.  The catalog always
\* consists of rows it started with, unchanged and in their order; the rows
\* whose key is NULL and the rows whose key no other row carried are all
\* there; a row that is gone carried a key that a remaining row of smaller
\* compound_id carries.
C28_OnlySurplusDeleted ==
    LET initial == loc[1].initial
    IN  /\ catalog = SelectSeq(initial, LAMBDA row : row \in Rows(catalog))
        /\ \A row \in Rows(initial) :
              \/ row.inchi_key = None
              \/ Carrying(initial, row.inchi_key) = {row}
              => row \in Rows(catalog)
        /\ \A row \in Rows(initial) \ Rows(catalog) :
              \E kept \in Carrying(catalog, row.inchi_key) :
                 kept.compound_id < row.compound_id

\* The second of four rows was surplus and is gone; the rows after it, one
\* without key and one with a key of its own, are there.
C28_Witness ==
    /\ loc[1].pc = "rd_done"
    /\ Len(loc[1].initial) = 4
    /\ Len(catalog) = 3
    /\ catalog[1].compound_id = 1
    /\ catalog[2].compound_id = 3
    /\ catalog[2].inchi_key = None
    /\ catalog[3].inchi_key \notin {None, catalog[1].inchi_key}

\* The rows of the run of seed_database: those the connection sees beyond
\* the catalog it started on.
SeededRows ==
    LET table == Visible(catalog, loc[1].pending)
    IN  {i \in 1..Len(table) : i > Len(loc[1].initial)}

\* C29: seed_database never creates two rows with the same key.  Every row
\* it inserts carries a key that is set and that no row of the catalog it
\* started on and no other row of the run carries, also when the list
\* resolves twice to the same compound.
C29_SeedKeysDistinct ==
    LET table == Visible(catalog, loc[1].pending)
    IN  \A i \in SeededRows :
           /\ Truthy(table[i].inchi_key)
           /\ \A j \in 1..Len(table) :
                 j # i => table[j].inchi_key # table[i].inchi_key

\* The first two names resolved to the same key; one row was inserted for
\* them, the other skipped, and the run is committed.
C29_Witness ==
    /\ loc[1].outcome = "committed"
    /\ Len(loc[1].compounds_to_insert) >= 2
    /\ loc[1].compounds_to_insert[1].inchi_key = loc[1].compounds_to_insert[2].inchi_key
    /\ loc[1].compounds_to_insert[1] # loc[1].compounds_to_insert[2]
    /\ loc[1].inserted_count = 1
    /\ loc[1].skipped_count = 1
    /\ Len(catalog) = Len(loc[1].initial) + 1

\* C30: seeding is all-or-nothing.  The database changes in one step only,
\* the commit after the last record, which adds all the rows of the run; a
\* database error at any statement leaves the database as it was at the
\* start, whatever had been inserted.
C30_AllOrNothing ==
    [][/\ catalog' # catalog =>
             /\ loc[1].pc = "sd_commit"
             /\ loc'[1].outcome = "committed"
             /\ catalog' = loc[1].initial \o loc[1].pending
             /\ Len(loc[1].pending) = loc[1].inserted_count
       /\ loc'[1].outcome # "committed" => catalog' = loc[1].initial]_vars

\* A database error after two inserts: nothing is stored.
C30_Witness ==
    /\ loc[1].outcome = "rolledback"
    /\ loc[1].inserted_count = 2
    /\ catalog = loc[1].initial

====
